---- MODULE Spec2Model ----
(***************************************************************************)
(* A model of the masterBot agent runtime: the agent loop (Agent.run), the *)
(* streaming chat endpoint that consumes it, and the DAG executor.         *)
(***************************************************************************)
EXTENDS Integers, Sequences, FiniteSets, TLC

\* ------------------------------------------------------------------ bounds
\* Number of tasks in the session's task graph.
NTasks == 3
\* Number of rows of the tasks table when getReadyTasks is called directly.
NRepoTasks == 2
\* Number of SkillSource objects handed to registerSource.
NSources == 3
\* Number of registry calls (register, unregister, one lookup) in a behaviour.
NRegOps == 4
\* Largest value of the maxIterations option explored.
MaxIterations == 2
\* Most tool calls the model produces during one run.
MaxToolCalls == 2
\* Most content deltas the model produces during one run.
MaxChunks == 2

\* Value at which the model stops counting a remote source's reconnect attempts.
MaxReconnects == 6
\* Most execute() calls made on the remote source.
MaxMcpCalls == 2

\* Most messages of the history handed to trimMessages.
MaxHistory == 4

\* Number of session ids the callers of the memory manager use.
NMemSessions == 4
\* Number of calls made on the memory manager in a behaviour.
NMemOps == 5
\* Number of calls made on a memory manager that is met full.
NFullCalls == 2

\* Number of LongTermMemory calls that can be waiting for the embedder at once.
NLtmCalls == 2
\* Number of calls made on the long-term memory in a behaviour.
NLtmOps == 3
\* Number of seconds CURRENT_TIMESTAMP advances in a behaviour.
MaxLtmClock == 1

\* Number of registry calls of the host that can be pending at once.
NHostCalls == 2
\* Number of registry calls the host makes in a behaviour.
NHostOps == 3

\* Most chunks of a provider stream before the one that carries finish_reason.
MaxDeltas == 3

\* ------------------------------------------------------------------- state
VARIABLES
    mode,            \* who consumes run(): "execute" (Agent.execute) or "stream" (/api/chat/stream)
    maxIterations,   \* Agent.maxIterations
    longTermMemory,  \* whether Agent.longTermMemory is configured
    pc,              \* where the run() generator stands
    iteration,       \* run(): let iteration
    messages,        \* run(): const messages
    events,          \* every ExecutionStep the generator has yielded, in order
    fullContent,     \* run(): let fullContent (the deltas of this turn, in order)
    toolCalls,       \* run(): let toolCalls
    tcIdx,           \* index of the tool call the for-of loop stands at
    resultStr,       \* content of the observation just yielded (resultStr / errorMsg)
    llmStreamCalls,  \* number of llm.chatStream calls made by this run
    llmChatCalls,    \* number of llm.chat calls made by this run
    thrown,          \* "" or what made run() end with an exception
    demand,          \* TRUE while the consumer awaits the generator's next()
    aborted,         \* context.abortSignal.aborted
    abortedAt,       \* number of events yielded when the signal was raised (-1: never)
    orphans,         \* ids of the tool calls whose handler outlived its timeout and still runs
    lateSettled,     \* ids of the tool calls whose handler settled after its timeout
    nToolCalls,      \* tool_call chunks produced so far by the model in this run
    nChunks,         \* content chunks produced so far by the model in this run
    \* --- POST /api/chat/stream
    srvPc,           \* where the route handler stands ("idle": no request)
    writable,        \* reply.raw.writable
    writableFinished, \* reply.raw.writableFinished
    closePending,    \* the socket is gone and reply.raw's 'close' listeners have not run yet
    assistantAnswer, \* let assistantAnswer
    saved,           \* the messages handed to historyRepository.saveMessage, in order
    disconnectedAt,  \* number of steps yielded when the client went away (-1: never)
    \* --- tasks table and DAGExecutor
    dependencies,    \* task id -> ids in its dependencies column (ids follow created_at)
    status,          \* task id -> status column
    result,          \* task id -> result column ("" for NULL)
    execs,           \* the DAGExecutor.execute() runs under way
    round,           \* per run: let round
    dagPc,           \* per run: where execute() stands
    readyTasks,      \* per run: const readyTasks of the round
    settled,         \* per run: task id -> how its dispatch promise settled
    resIdx,          \* per run: index of the settled result being processed
    dagEvents,       \* the DAGStepResults yielded, in order
    startedRound,    \* per run: task id -> round in which the run set it to running (0: not)
    raised,          \* ids of the tasks whose dispatch through the registry raised an error
    session,         \* task id -> session_id column
    queried,         \* the session a direct getReadyTasks call was made for ("": none)
    answer,          \* what that call returned
    description,     \* task id -> kind of its description column: "text" or "tool"
    \* --- SkillRegistry and its sources
    objs,            \* the SkillSource objects created so far: [name, tools], id = index
    loaded,          \* source id -> the tools its getTools() returns now
    initState,       \* source id -> "new", "running", "done" or "failed" (initialize)
    destroys,        \* source id -> number of completed destroy() calls
    sources,         \* SkillRegistry.sources: the ids held by the Map, in insertion order
    wasInstalled,    \* ids that have been set into the Map at some time
    mutPc,           \* where the registerSource / unregisterSource call in flight stands
    mutSrc,          \* the source being registered (0: none)
    mutOld,          \* the source found under the name (0: none)
    mutResult,       \* how the last registerSource call ended: "", "ok", "error"
    lkPc,            \* where the lookup in flight stands
    lkKind,          \* "defs" (getToolDefinitions) or "exec" (executeAction)
    lkTool,          \* toolName of the executeAction call
    lkIdx,           \* entries of the Map its iterator has passed
    lkTools,         \* descriptors collected by getToolDefinitions: [name, src]
    lkExecs,         \* sources whose execute the executeAction call has invoked
    lkRaised,        \* sources whose execute raised during the call
    lkResult,        \* how the lookup ended: "", "list", "result", "notfound", "handler_error"
    lkSeen,          \* sources whose getTools the lookup has called: [src, init]
    lkAtStart,       \* the sources the Map held when the lookup was called
    lkFailed,        \* sources whose getTools() raised during the lookup
    nOps,            \* registry calls started
    mcpConfig,       \* McpSkillSource.config, by kind
    connected,       \* McpSkillSource.connected
    toolCache,       \* McpSkillSource.toolCache: the function names
    reconnectTimer,  \* whether McpSkillSource.reconnectTimer holds a timer
    reconnectAttempts, \* McpSkillSource.reconnectAttempts
    liveTimers,      \* timers set by setTimeout and neither fired nor cleared
    timerDelay,      \* the delay of the last setTimeout call
    mcpInit,         \* initialize(): "new", "running", "resolved", "rejectedConfig", "rejectedConnect"
    connPc,          \* connect(): "idle", "handshake", "listing"
    connBy,          \* who called connect(): "init" or "timer"
    destroyPc,       \* destroy(): "none", "closing", "done"
    mcpExec,         \* how the last execute() went
    callToolReqs,    \* callTool requests sent to the server
    mcpCalls,        \* execute() calls made
    mcpGot,          \* what the last getTools() returned
    mcpFailed,       \* handshakes failed since the last one that succeeded
    mcpLog,          \* the connection attempts: [delay, outcome]
    startedAfterDestroy,   \* an attempt started after destroy() returned
    scheduledAfterDestroy, \* a timer was set after destroy() returned
    inFlightAtDestroy,     \* connect() was running when destroy() was called
    listed,          \* how the last listTools() went: "", "ok", "failed"
    maxTokens,       \* ContextManager.maxTokens
    reservedTokens,  \* ContextManager.reservedTokens
    systemMessage,   \* trimMessages(): systemMessage
    history,         \* trimMessages(): history
    currentMessages, \* trimMessages(): currentMessages
    llm,             \* trimMessages(): whether llm is given
    trimPc,          \* trimMessages(): "idle", "called", "summarising", "returned"
    kept,            \* trimMessages(): kept
    trimmed,         \* trimMessages(): trimmed
    trimResult,      \* what trimMessages() returned
    summaryOutcome,  \* how generateSummary() ended: "", "ok", "failed"
    chatCalls,       \* llm.chat calls made by generateSummary()
    sessions,        \* SessionMemoryManager.sessions: the keys
    accessOrder,     \* SessionMemoryManager.accessOrder, in insertion order: [id, at]
    maxSessions,     \* SessionMemoryManager.maxSessions
    now,             \* the last value of Date.now()
    memLast,         \* the last call made on the manager
    memOps,          \* calls made on the manager
    evictions,       \* sessions removed by evictLRU()
    embeddingFn,     \* LongTermMemory.embeddingFn: "none" or "present"
    memories,        \* the rows of the memories table
    ltmCalls,        \* set/remember/search calls waiting for the embedder, by slot
    ltmClock,        \* CURRENT_TIMESTAMP, in seconds
    ltmOps,          \* calls made on the long-term memory
    ltmWrites,       \* rows written so far: the source of new ids
    ltmGot,          \* what the last get() returned
    ltmFound,        \* what the last search() returned
    ltmSetArgs,      \* the (key, value) pairs set() was called with
    callToolResponse,  \* what the MCP server answers to callTool
    mcpResult,       \* what the last execute() on the remote source returned
    hostCalls,       \* registerSource / unregisterSource calls of the host, by slot
    srcConnected,    \* McpSkillSource.connected, by source object
    srcTimer,        \* McpSkillSource.reconnectTimer is set, by source object
    srcAttempt,      \* a reconnect attempt's connect() is in flight, by source object
    hostOps,         \* registry calls the host has made
    providerStream,  \* the chunks of the provider's completion stream
    streamPos,       \* the next chunk chatStream's loop takes
    currentToolCall, \* chatStream's currentToolCall
    yielded          \* the chunks chatStream has yielded

agentVars == <<mode, maxIterations, longTermMemory, pc, iteration, messages, events,
               fullContent, toolCalls, tcIdx, resultStr, llmStreamCalls, llmChatCalls,
               thrown, demand, aborted, abortedAt, orphans, lateSettled,
               nToolCalls, nChunks>>

srvVars == <<srvPc, writable, writableFinished, closePending, assistantAnswer, saved,
             disconnectedAt>>

repoVars == <<session, queried, answer, description>>

dagVars == <<dependencies, status, result, execs, round, dagPc, readyTasks, settled,
             resIdx, dagEvents, startedRound, raised, repoVars>>

regVars == <<objs, loaded, initState, destroys, sources, wasInstalled, mutPc, mutSrc, mutOld,
             mutResult, lkPc, lkKind, lkTool, lkIdx, lkTools, lkExecs, lkRaised, lkResult,
             lkSeen, lkAtStart, lkFailed, nOps>>

mcpVars == <<mcpConfig, connected, toolCache, reconnectTimer, reconnectAttempts, liveTimers,
             timerDelay, mcpInit, connPc, connBy, destroyPc, mcpExec, callToolReqs, mcpCalls,
             mcpGot, mcpFailed, mcpLog, startedAfterDestroy, scheduledAfterDestroy,
             inFlightAtDestroy, listed>>

ctxVars == <<maxTokens, reservedTokens, systemMessage, history, currentMessages, llm, trimPc,
             kept, trimmed, trimResult, summaryOutcome, chatCalls>>

memVars == <<sessions, accessOrder, maxSessions, now, memLast, memOps, evictions>>

ltmVars == <<embeddingFn, memories, ltmCalls, ltmClock, ltmOps, ltmWrites, ltmGot, ltmFound,
             ltmSetArgs>>

execVars == <<callToolResponse, mcpResult>>

hostVars == <<hostCalls, srcConnected, srcTimer, srcAttempt, hostOps>>

chatVars == <<providerStream, streamPos, currentToolCall, yielded>>

extVars == <<ltmVars, execVars, hostVars, chatVars>>

libVars == <<mcpVars, ctxVars, memVars, extVars>>

\* What the McpSkillSource steps leave alone.
otherVars == <<agentVars, srvVars, dagVars, regVars, ctxVars, memVars, extVars>>

\* What the ContextManager steps leave alone.
notCtxVars == <<agentVars, srvVars, dagVars, regVars, mcpVars, memVars, extVars>>

\* What the SessionMemoryManager steps leave alone.
notMemVars == <<agentVars, srvVars, dagVars, regVars, mcpVars, ctxVars, extVars>>

\* What the LongTermMemory steps leave alone.
notLtmVars == <<agentVars, srvVars, dagVars, regVars, mcpVars, ctxVars, memVars, execVars,
                hostVars, chatVars>>

\* What execute() on a remote source leaves alone, of the other components.
notExecVars == <<agentVars, srvVars, dagVars, regVars, ctxVars, memVars, ltmVars, hostVars,
                 chatVars>>

\* What the host's registry calls leave alone: the other components, and the
\* registry's own single call and lookup.
notHostVars == <<agentVars, srvVars, dagVars, mcpVars, ctxVars, memVars, ltmVars, execVars,
                 chatVars>>

\* What chatStream leaves alone.
notChatVars == <<agentVars, srvVars, dagVars, regVars, mcpVars, ctxVars, memVars, ltmVars,
                 execVars, hostVars>>
regCallVars == <<wasInstalled, mutPc, mutSrc, mutOld, mutResult, lkPc, lkKind, lkTool, lkIdx,
                 lkTools, lkExecs, lkRaised, lkResult, lkSeen, lkAtStart, lkFailed, nOps>>

vars == <<agentVars, srvVars, dagVars, regVars, libVars>>

\* ----------------------------------------------------------------- helpers
ToolNames == {"plan_task", "memory_remember", "memory_recall", "skill.action"}
\* The tool calls the model may produce, by name and function.arguments: JSON text
\* that parses, or text that does not (the name is not read before the parse, so
\* one name stands for all of them there).
CallForms ==
    {[name |-> n, arguments |-> "json"] : n \in ToolNames}
    \cup {[name |-> "skill.action", arguments |-> "garbage"]}
\* What trimMessages found: a history that fits, or one that is summarised
HistoryShapes == {"fits", "trimmed"}

Msg(role, text, tag, calls, callId) ==
    [role |-> role, text |-> text, tag |-> tag, toolCalls |-> calls, toolCallId |-> callId]

\* The two history messages the server stores per exchange ({role, content} only).
HistoryPair == << Msg("user", <<>>, "history", <<>>, 0), Msg("assistant", <<>>, "history", <<>>, 0) >>

\* ContextManager.trimMessages as the agent uses it: the list it returns. The
\* summary message is the model's summary or, when llm.chat fails, the fallback.
TrimmedList(shape) ==
    LET sys == Msg("system", <<>>, "system", <<>>, 0)
        cur == Msg("user", <<>>, "input", <<>>, 0)
    IN  CASE shape = "fits"    -> <<sys>> \o HistoryPair \o <<cur>>
          [] shape = "trimmed" ->
               <<sys, Msg("system", <<>>, "summary", <<>>, 0)>> \o HistoryPair \o <<cur>>

\* generateSummary is the only place of trimMessages that calls llm.chat.
SummaryChatCalls(shape) == IF shape = "trimmed" THEN 1 ELSE 0

\* while (iteration < this.maxIterations)
LoopGuardOff == iteration <= maxIterations
LoopGuard == iteration < maxIterations

\* if (iteration >= this.maxIterations) after the loop
LimitReached == iteration >= maxIterations

\* One yielded ExecutionStep; iter, call and idx record which turn and which tool
\* call of the turn the step belongs to.
Step(type, text, tag, call, idx) ==
    [type |-> type, text |-> text, tag |-> tag, iter |-> iteration, call |-> call, idx |-> idx]

Yield(e) ==
    /\ events' = Append(events, e)
    /\ demand' = (mode = "execute")

\* The assistant message synthesised from the stream.
Response == Msg("assistant", fullContent, "", toolCalls, 0)

\* The assistant message whose tool calls are being handled.
CurCalls == LET last == CHOOSE i \in 1..Len(messages) :
                            /\ messages[i].role = "assistant"
                            /\ \A j \in (i+1)..Len(messages) : messages[j].role # "assistant"
            IN messages[last].toolCalls

ToolReplyNoId(call, tag) == Msg("tool", <<>>, tag, <<>>, 0)
\* messages.push({ role: 'tool', content, toolCallId: toolCall.id })
ToolReply(call, tag) == Msg("tool", <<>>, tag, <<>>, call.id)

\* SkillRegistry.executeAction: a name no source advertises fails with tool-not-found;
\* the advertised tool returns its result or fails.
Registered == {"skill.action"}
ExecuteAction(name) == IF name \in Registered THEN {"result", "Error: failed"}
                       ELSE {"Error: not found"}

PlanStepsSwapped == <<"plan", "thought">>
\* plan_task yields the thought step, then the plan step.
PlanSteps == <<"thought", "plan">>

BuiltIn(call) ==
    \/ call.name = "plan_task"
    \/ call.name \in {"memory_remember", "memory_recall"} /\ longTermMemory

\* ------------------------------------------------------------------ agent
InitAgent(m) ==
    /\ mode = m
    /\ maxIterations \in 1..MaxIterations
    /\ longTermMemory \in BOOLEAN
    /\ pc = "start"
    /\ iteration = 0
    /\ messages = <<>>
    /\ events = <<>>
    /\ fullContent = <<>>
    /\ toolCalls = <<>>
    /\ tcIdx = 0
    /\ resultStr = ""
    /\ llmStreamCalls = 0
    /\ llmChatCalls = 0
    /\ thrown = ""
    /\ demand = TRUE
    /\ aborted = FALSE
    /\ abortedAt = -1
    /\ orphans = {}
    /\ lateSettled = {}
    /\ nToolCalls = 0
    /\ nChunks = 0

\* run(): memory lookup (failures ignored), trimMessages, tool definitions.
Setup ==
    /\ pc = "start" /\ demand
    /\ \E shape \in HistoryShapes :
          /\ messages' = TrimmedList(shape)
          /\ llmChatCalls' = llmChatCalls + SummaryChatCalls(shape)
    /\ pc' = "loop"
    /\ UNCHANGED <<libVars, regVars, dagVars, srvVars, mode, maxIterations, longTermMemory, iteration, events, fullContent,
                   toolCalls, tcIdx, resultStr, llmStreamCalls, thrown, demand, aborted,
                   abortedAt, orphans, lateSettled, nToolCalls, nChunks>>

\* The head of the while loop: the next iteration calls llm.chatStream.
LoopHead ==
    /\ pc = "loop" /\ demand
    /\ LoopGuard
    /\ iteration' = iteration + 1
    /\ fullContent' = <<>>
    /\ toolCalls' = <<>>
    /\ llmStreamCalls' = llmStreamCalls + 1
    /\ pc' = "stream"
    /\ UNCHANGED <<libVars, regVars, dagVars, srvVars, mode, maxIterations, longTermMemory, messages, events, tcIdx, resultStr,
                   llmChatCalls, thrown, demand, aborted, abortedAt, orphans, lateSettled,
                   nToolCalls, nChunks>>

\* The loop ends by its guard; the check after the loop yields the step-limit answer.
LoopExit ==
    /\ pc = "loop" /\ demand
    /\ ~LoopGuard
    /\ IF LimitReached
       THEN /\ Yield(Step("answer", <<>>, "limit", 0, 0))
            /\ pc' = "limit"
       ELSE /\ pc' = "done"
            /\ UNCHANGED <<events, demand>>
    /\ UNCHANGED <<libVars, regVars, dagVars, srvVars, mode, maxIterations, longTermMemory, iteration, messages, fullContent,
                   toolCalls, tcIdx, resultStr, llmStreamCalls, llmChatCalls, thrown,
                   aborted, abortedAt, orphans, lateSettled, nToolCalls, nChunks>>

\* A content chunk of the stream: accumulated and yielded as a content step.
StreamContent ==
    /\ pc = "stream" /\ demand /\ ~aborted
    /\ nChunks < MaxChunks
    /\ nChunks' = nChunks + 1
    /\ fullContent' = Append(fullContent, nChunks + 1)
    /\ Yield(Step("content", <<nChunks + 1>>, "", 0, 0))
    /\ UNCHANGED <<libVars, regVars, dagVars, srvVars, mode, maxIterations, longTermMemory, pc, iteration, messages, toolCalls,
                   tcIdx, resultStr, llmStreamCalls, llmChatCalls, thrown, aborted,
                   abortedAt, orphans, lateSettled, nToolCalls>>

\* A tool_call chunk of the stream: pushed on toolCalls.
StreamToolCall ==
    /\ pc = "stream" /\ demand /\ ~aborted
    /\ nToolCalls < MaxToolCalls
    /\ \E c \in CallForms :
          toolCalls' = Append(toolCalls, [id |-> nToolCalls + 1, name |-> c.name,
                                          arguments |-> c.arguments])
    /\ nToolCalls' = nToolCalls + 1
    /\ UNCHANGED <<libVars, regVars, dagVars, srvVars, mode, maxIterations, longTermMemory, pc, iteration, messages, events,
                   fullContent, tcIdx, resultStr, llmStreamCalls, llmChatCalls, thrown,
                   demand, aborted, abortedAt, orphans, lateSettled, nChunks>>

\* The model call fails: the error leaves run().
StreamError ==
    /\ pc = "stream" /\ demand /\ ~aborted
    /\ thrown' = "llm"
    /\ pc' = "threw"
    /\ UNCHANGED <<libVars, regVars, dagVars, srvVars, mode, maxIterations, longTermMemory, iteration, messages, events,
                   fullContent, toolCalls, tcIdx, resultStr, llmStreamCalls, llmChatCalls,
                   demand, aborted, abortedAt, orphans, lateSettled, nToolCalls, nChunks>>

\* The stream is exhausted: the assistant message is appended; without tool calls
\* the answer is yielded.
StreamEnd ==
    /\ pc = "stream" /\ demand /\ ~aborted
    /\ messages' = Append(messages, Response)
    /\ IF toolCalls = <<>>
       THEN /\ Yield(Step("answer", fullContent, "", 0, 0))
            /\ pc' = "answer"
            /\ UNCHANGED tcIdx
       ELSE /\ pc' = "tools"
            /\ tcIdx' = 1
            /\ UNCHANGED <<events, demand>>
    /\ UNCHANGED <<libVars, regVars, dagVars, srvVars, mode, maxIterations, longTermMemory, iteration, fullContent, toolCalls,
                   resultStr, llmStreamCalls, llmChatCalls, thrown, aborted, abortedAt,
                   orphans, lateSettled, nToolCalls, nChunks>>

\* Resuming after the answer: break, then the check after the loop.
AfterAnswer ==
    /\ pc = "answer" /\ demand
    /\ IF LimitReached
       THEN /\ Yield(Step("answer", <<>>, "limit", 0, 0))
            /\ pc' = "limit"
       ELSE /\ pc' = "done"
            /\ UNCHANGED <<events, demand>>
    /\ UNCHANGED <<libVars, regVars, dagVars, srvVars, mode, maxIterations, longTermMemory, iteration, messages, fullContent,
                   toolCalls, tcIdx, resultStr, llmStreamCalls, llmChatCalls, thrown,
                   aborted, abortedAt, orphans, lateSettled, nToolCalls, nChunks>>

\* Resuming after the step-limit answer: the generator returns.
Finish ==
    /\ pc = "limit" /\ demand
    /\ pc' = "done"
    /\ UNCHANGED <<libVars, regVars, dagVars, srvVars, mode, maxIterations, longTermMemory, iteration, messages, events,
                   fullContent, toolCalls, tcIdx, resultStr, llmStreamCalls, llmChatCalls,
                   thrown, demand, aborted, abortedAt, orphans, lateSettled, nToolCalls,
                   nChunks>>

\* The for-of loop over response.toolCalls is exhausted: back to the while loop.
ToolsDone ==
    /\ pc = "tools" /\ demand
    /\ tcIdx > Len(CurCalls)
    /\ pc' = "loop"
    /\ UNCHANGED <<libVars, regVars, dagVars, srvVars, mode, maxIterations, longTermMemory, iteration, messages, events,
                   fullContent, toolCalls, tcIdx, resultStr, llmStreamCalls, llmChatCalls,
                   thrown, demand, aborted, abortedAt, orphans, lateSettled, nToolCalls,
                   nChunks>>

\* JSON.parse(toolCall.function.arguments) throws: nothing catches it.
ParseArguments ==
    /\ pc = "tools" /\ demand
    /\ tcIdx <= Len(CurCalls)
    /\ CurCalls[tcIdx].arguments = "garbage"
    /\ thrown' = "tool"
    /\ pc' = "threw"
    /\ UNCHANGED <<libVars, regVars, dagVars, srvVars, mode, maxIterations, longTermMemory, iteration, messages, events,
                   fullContent, toolCalls, tcIdx, resultStr, llmStreamCalls, llmChatCalls,
                   demand, aborted, abortedAt, orphans, lateSettled, nToolCalls, nChunks>>

\* plan_task: the thought step.
PlanThought ==
    /\ pc = "tools" /\ demand
    /\ tcIdx <= Len(CurCalls)
    /\ CurCalls[tcIdx].arguments = "json"
    /\ CurCalls[tcIdx].name = "plan_task"
    /\ Yield(Step(PlanSteps[1], <<>>, "", CurCalls[tcIdx].id, tcIdx))
    /\ pc' = "thought"
    /\ UNCHANGED <<libVars, regVars, dagVars, srvVars, mode, maxIterations, longTermMemory, iteration, messages, fullContent,
                   toolCalls, tcIdx, resultStr, llmStreamCalls, llmChatCalls, thrown,
                   aborted, abortedAt, orphans, lateSettled, nToolCalls, nChunks>>

\* plan_task: the plan step.
PlanPlan ==
    /\ pc = "thought" /\ demand
    /\ Yield(Step(PlanSteps[2], <<>>, "", CurCalls[tcIdx].id, tcIdx))
    /\ resultStr' = "Plan created"
    /\ pc' = "observation"
    /\ UNCHANGED <<libVars, regVars, dagVars, srvVars, mode, maxIterations, longTermMemory, iteration, messages, fullContent,
                   toolCalls, tcIdx, llmStreamCalls, llmChatCalls, thrown, aborted,
                   abortedAt, orphans, lateSettled, nToolCalls, nChunks>>

\* memory_remember / memory_recall with long-term memory configured: the store is
\* awaited outside any try block, so its failure leaves run().
MemoryTool ==
    /\ pc = "tools" /\ demand
    /\ tcIdx <= Len(CurCalls)
    /\ CurCalls[tcIdx].arguments = "json"
    /\ CurCalls[tcIdx].name \in {"memory_remember", "memory_recall"}
    /\ longTermMemory
    /\ \E ok \in BOOLEAN :
          IF ok
          THEN /\ resultStr' = (IF CurCalls[tcIdx].name = "memory_remember"
                                THEN "Memory saved" ELSE "memories")
               /\ Yield(Step("observation", <<>>, resultStr', CurCalls[tcIdx].id, tcIdx))
               /\ pc' = "observation"
               /\ UNCHANGED thrown
          ELSE /\ thrown' = "tool"
               /\ pc' = "threw"
               /\ UNCHANGED <<resultStr, events, demand>>
    /\ UNCHANGED <<libVars, regVars, dagVars, srvVars, mode, maxIterations, longTermMemory, iteration, messages, fullContent,
                   toolCalls, tcIdx, llmStreamCalls, llmChatCalls, aborted, abortedAt,
                   orphans, lateSettled, nToolCalls, nChunks>>

\* Any other tool: the action step.
ToolAction ==
    /\ pc = "tools" /\ demand
    /\ tcIdx <= Len(CurCalls)
    /\ CurCalls[tcIdx].arguments = "json"
    /\ ~BuiltIn(CurCalls[tcIdx])
    /\ Yield(Step("action", <<>>, "Calling", CurCalls[tcIdx].id, tcIdx))
    /\ pc' = "action"
    /\ UNCHANGED <<libVars, regVars, dagVars, srvVars, mode, maxIterations, longTermMemory, iteration, messages, fullContent,
                   toolCalls, tcIdx, resultStr, llmStreamCalls, llmChatCalls, thrown,
                   aborted, abortedAt, orphans, lateSettled, nToolCalls, nChunks>>

\* executeWithTimeout: skillRegistry.executeAction settles before the timer; its
\* result, or its error through the catch block, becomes the observation.
ExecSettle ==
    /\ pc = "action" /\ demand
    /\ \E r \in ExecuteAction(CurCalls[tcIdx].name) :
          /\ resultStr' = r
          /\ Yield(Step("observation", <<>>, resultStr', CurCalls[tcIdx].id, tcIdx))
    /\ pc' = "observation"
    /\ UNCHANGED <<libVars, regVars, dagVars, srvVars, mode, maxIterations, longTermMemory, iteration, messages, fullContent,
                   toolCalls, tcIdx, llmStreamCalls, llmChatCalls, thrown, aborted,
                   abortedAt, orphans, lateSettled, nToolCalls, nChunks>>

\* executeWithTimeout: the 60 s timer fires first and rejects; fn()'s promise is
\* left running.
ExecTimeout ==
    /\ pc = "action" /\ demand
    /\ CurCalls[tcIdx].name \in Registered
    /\ resultStr' = "Error: timed out"
    /\ Yield(Step("observation", <<>>, resultStr', CurCalls[tcIdx].id, tcIdx))
    /\ orphans' = orphans \cup {CurCalls[tcIdx].id}
    /\ pc' = "observation"
    /\ UNCHANGED <<libVars, regVars, dagVars, srvVars, mode, maxIterations, longTermMemory, iteration, messages, fullContent,
                   toolCalls, tcIdx, llmStreamCalls, llmChatCalls, thrown, aborted,
                   abortedAt, lateSettled, nToolCalls, nChunks>>

\* Resuming after the plan or observation step: the tool reply is pushed and the
\* for-of loop moves on.
PushReply ==
    /\ pc = "observation" /\ demand
    /\ messages' = Append(messages, ToolReply(CurCalls[tcIdx], resultStr))
    /\ tcIdx' = tcIdx + 1
    /\ pc' = "tools"
    /\ UNCHANGED <<libVars, regVars, dagVars, srvVars, mode, maxIterations, longTermMemory, iteration, events, fullContent,
                   toolCalls, resultStr, llmStreamCalls, llmChatCalls, thrown, demand,
                   aborted, abortedAt, orphans, lateSettled, nToolCalls, nChunks>>

\* A handler that outlived its timeout settles: executeWithTimeout's callbacks clear
\* the fired timer and settle the already rejected promise, which changes nothing.
HandlerLateSettle ==
    /\ \E id \in orphans :
          /\ orphans' = orphans \ {id}
          /\ lateSettled' = lateSettled \cup {id}
    /\ UNCHANGED <<libVars, regVars, dagVars, srvVars, mode, maxIterations, longTermMemory, pc, iteration, messages, events,
                   fullContent, toolCalls, tcIdx, resultStr, llmStreamCalls, llmChatCalls,
                   thrown, demand, aborted, abortedAt, nToolCalls, nChunks>>

\* The caller raises context.abortSignal while the run is under way: while the
\* stream is consumed, while a tool call executes, between tool calls or iterations.
Cancel ==
    /\ pc \in {"loop", "stream", "tools", "thought", "action", "observation"}
    /\ ~aborted
    /\ aborted' = TRUE
    /\ abortedAt' = Len(events)
    /\ UNCHANGED <<libVars, regVars, dagVars, srvVars, mode, maxIterations, longTermMemory, pc, iteration, messages, events,
                   fullContent, toolCalls, tcIdx, resultStr, llmStreamCalls, llmChatCalls,
                   thrown, demand, orphans, lateSettled, nToolCalls, nChunks>>

\* The signal is handed to llm.chatStream only: once it is raised the provider's
\* stream delivers nothing more and fails with an abort error, which leaves run().
StreamAbort ==
    /\ pc = "stream" /\ demand
    /\ aborted
    /\ thrown' = "abort"
    /\ pc' = "threw"
    /\ UNCHANGED <<libVars, regVars, dagVars, srvVars, mode, maxIterations, longTermMemory, iteration, messages, events,
                   fullContent, toolCalls, tcIdx, resultStr, llmStreamCalls, llmChatCalls,
                   demand, aborted, abortedAt, orphans, lateSettled, nToolCalls, nChunks>>

\* ------------------------------------------------- POST /api/chat/stream
\* let assistantAnswer = ''
EmptyAnswer == [text |-> <<>>, tag |-> ""]

\* No streaming request is being served.
SrvIdle ==
    /\ srvPc = "idle"
    /\ writable = TRUE
    /\ writableFinished = FALSE
    /\ closePending = FALSE
    /\ assistantAnswer = EmptyAnswer
    /\ saved = <<>>
    /\ disconnectedAt = -1

\* The handler has set the headers, registered the close listener and entered the
\* for-await loop over agent.run().
SrvInit ==
    /\ srvPc = "loop"
    /\ writable = TRUE
    /\ writableFinished = FALSE
    /\ closePending = FALSE
    /\ assistantAnswer = EmptyAnswer
    /\ saved = <<>>
    /\ disconnectedAt = -1

\* if (!abortController.signal.aborted) before the two saveMessage calls
PersistGuard == ~aborted

\* The loop body for one yielded step: remember an answer, write the step if the
\* socket is writable, else break (which closes the generator).
SrvStep ==
    /\ srvPc = "loop" /\ ~demand
    /\ LET step == events[Len(events)] IN
          assistantAnswer' = IF step.type = "answer"
                             THEN [text |-> step.text, tag |-> step.tag]
                             ELSE assistantAnswer
    /\ IF writable
       THEN /\ demand' = TRUE
            /\ UNCHANGED <<srvPc, pc>>
       ELSE /\ srvPc' = "after"
            /\ pc' = "returned"
            /\ UNCHANGED demand
    /\ UNCHANGED <<libVars, regVars, dagVars, mode, maxIterations, longTermMemory, iteration, messages, events,
                   fullContent, toolCalls, tcIdx, resultStr, llmStreamCalls, llmChatCalls,
                   thrown, aborted, abortedAt, orphans, lateSettled, nToolCalls, nChunks,
                   writable, writableFinished, closePending, saved, disconnectedAt>>

\* The generator has returned: the loop ends.
SrvLoopDone ==
    /\ srvPc = "loop" /\ demand /\ pc = "done"
    /\ srvPc' = "after"
    /\ UNCHANGED <<libVars, regVars, dagVars, agentVars, writable, writableFinished, closePending, assistantAnswer,
                   saved, disconnectedAt>>

\* run() threw: the catch block logs (and writes an error frame when it can); nothing
\* is saved.
SrvCatch ==
    /\ srvPc = "loop" /\ demand /\ pc = "threw"
    /\ srvPc' = "end"
    /\ UNCHANGED <<libVars, regVars, dagVars, agentVars, writable, writableFinished, closePending, assistantAnswer,
                   saved, disconnectedAt>>

\* "Persist history after success": the user message and the assistant answer are
\* saved unless the signal is raised.
SrvPersist ==
    /\ srvPc = "after"
    /\ saved' = IF PersistGuard
                THEN saved \o << [role |-> "user", content |-> [text |-> <<>>, tag |-> "input"]],
                                 [role |-> "assistant", content |-> assistantAnswer] >>
                ELSE saved
    /\ srvPc' = "end"
    /\ UNCHANGED <<libVars, regVars, dagVars, agentVars, writable, writableFinished, closePending, assistantAnswer,
                   disconnectedAt>>

\* if (!reply.raw.writableFinished) reply.raw.end()
SrvEnd ==
    /\ srvPc = "end"
    /\ srvPc' = "closed"
    /\ writableFinished' = TRUE
    /\ writable' = FALSE
    /\ UNCHANGED <<libVars, regVars, dagVars, agentVars, closePending, assistantAnswer, saved, disconnectedAt>>

\* Socket events are dispatched while the handler awaits the generator, or after
\* it has finished.
SocketTurn == (srvPc = "loop" /\ demand) \/ srvPc = "closed"

\* The client goes away: the socket stops being writable; the 'close' listeners run
\* later.
Disconnect ==
    /\ srvPc = "loop" /\ SocketTurn
    /\ writable /\ ~closePending /\ disconnectedAt = -1
    /\ writable' = FALSE
    /\ closePending' = TRUE
    /\ disconnectedAt' = Len(events)
    /\ UNCHANGED <<libVars, regVars, dagVars, agentVars, srvPc, writableFinished, assistantAnswer, saved>>

\* reply.raw.on('close'): abort unless the response was finished.
CloseEvent ==
    /\ closePending /\ SocketTurn
    /\ closePending' = FALSE
    /\ IF ~writableFinished
       THEN /\ aborted' = TRUE
            /\ abortedAt' = Len(events)
       ELSE UNCHANGED <<aborted, abortedAt>>
    /\ UNCHANGED <<libVars, regVars, dagVars, mode, maxIterations, longTermMemory, pc, iteration, messages, events,
                   fullContent, toolCalls, tcIdx, resultStr, llmStreamCalls, llmChatCalls,
                   thrown, demand, orphans, lateSettled, nToolCalls, nChunks,
                   srvPc, writable, writableFinished, assistantAnswer, saved, disconnectedAt>>

NextSrv == SrvStep \/ SrvLoopDone \/ SrvCatch \/ SrvPersist \/ SrvEnd \/ Disconnect \/ CloseEvent

\* --------------------------------------------------- tasks and DAGExecutor
\* const MAX_ROUNDS = 50
MAX_ROUNDS == 50

ExecIds == {1, 2}
Range(q) == {q[i] : i \in 1..Len(q)}
Tasks == DOMAIN dependencies
Terminal == {"completed", "failed"}

\* The task graphs explored: a task depends on tasks created before it.
Graphs == {g \in [1..NTasks -> SUBSET (1..NTasks)] : \A t \in 1..NTasks : g[t] \subseteq 1..(t-1)}

\* The elements of a set of task ids as a sequence in created_at order.
SortedSeq(S) == SelectSeq([i \in 1..Len(dependencies) |-> i], LAMBDA x : x \in S)

\* TaskRepository.getReadyTasks: pending tasks all of whose dependencies are completed.
GetTasksAllSessions(sessionId) == Tasks
\* TaskRepository.getTasks: the ids of the rows of the session.
GetTasks(sessionId) == {t \in Tasks : session[t] = sessionId}

GetReadyTasksNoDeps(sessionId) ==
    SortedSeq({t \in GetTasks(sessionId) : status[t] = "pending"})

GetReadyTasksFailedOk(sessionId) ==
    LET tasks == GetTasks(sessionId)
        doneIds == {t \in tasks : status[t] \in {"completed", "failed"}}
    IN SortedSeq({t \in tasks : status[t] = "pending" /\ dependencies[t] \subseteq doneIds})

GetReadyTasksAnyStatus(sessionId) ==
    LET tasks == GetTasks(sessionId)
        completedIds == {t \in tasks : status[t] = "completed"}
    IN SortedSeq({t \in tasks : dependencies[t] \subseteq completedIds})

\* TaskRepository.getReadyTasks: the pending rows of the session whose
\* dependencies are all ids of completed rows of the session.
GetReadyTasks(sessionId) ==
    LET tasks == GetTasks(sessionId)
        completedIds == {t \in tasks : status[t] = "completed"}
    IN SortedSeq({t \in tasks : status[t] = "pending" /\ dependencies[t] \subseteq completedIds})

\* this.sessionId of the DAGExecutor runs
SessionId == "s1"

\* Kinds of description: plain text, or the JSON of a tool call {tool, params}.
Descriptions == {"text", "tool"}

\* What dispatching a description does: plain text is not JSON and is "noted"; a
\* tool call goes to the registry, which answers ("result") or raises ("raised").
DispatchesOf(kind) == IF kind = "text" THEN {"noted"} ELSE {"result", "raised"}

\* DAGExecutor.executeTask: how the task's promise settles. The registry call is
\* awaited inside the try block whose catch swallows every error, so a raising
\* tool call falls through to the "Task noted" string.
ExecuteTask(d) ==
    CASE d = "noted"  -> [state |-> "fulfilled", value |-> "Task noted"]
      [] d = "result" -> [state |-> "fulfilled", value |-> "result"]
      [] d = "raised" -> [state |-> "fulfilled", value |-> "Task noted"]

Unsettled == [state |-> "pending", value |-> ""]

RoundGuardOff(e) == TRUE
\* while (round < MAX_ROUNDS)
RoundGuard(e) == round[e] < MAX_ROUNDS

RoundFinishedEarly(e) == resIdx[e] > 1
\* for (const settledResult of results): the loop has gone through every result
RoundFinished(e) == resIdx[e] > Len(readyTasks[e])

\* No task table, no executor.
DagIdle ==
    /\ dependencies = <<>>
    /\ status = <<>>
    /\ result = <<>>
    /\ execs = {}
    /\ round = [e \in ExecIds |-> 0]
    /\ dagPc = [e \in ExecIds |-> "idle"]
    /\ readyTasks = [e \in ExecIds |-> <<>>]
    /\ settled = [e \in ExecIds |-> <<>>]
    /\ resIdx = [e \in ExecIds |-> 0]
    /\ dagEvents = <<>>
    /\ startedRound = [e \in ExecIds |-> <<>>]
    /\ raised = {}
    /\ description = <<>>
    /\ session = <<>>
    /\ queried = ""
    /\ answer = <<>>

\* The task table holds graph g with statuses st and descriptions of the kinds
\* ds, all rows in the executor's session, and the runs in the set started are at
\* the head of execute().
DagStart(g, st, ds, started) ==
    /\ dependencies = g
    /\ description \in ds
    /\ status = st
    /\ result = [t \in DOMAIN g |-> ""]
    /\ execs = started
    /\ round = [e \in ExecIds |-> 0]
    /\ dagPc = [e \in ExecIds |-> IF e \in started THEN "loop" ELSE "idle"]
    /\ readyTasks = [e \in ExecIds |-> <<>>]
    /\ settled = [e \in ExecIds |-> [t \in DOMAIN g |-> Unsettled]]
    /\ resIdx = [e \in ExecIds |-> 0]
    /\ dagEvents = <<>>
    /\ startedRound = [e \in ExecIds |-> [t \in DOMAIN g |-> 0]]
    /\ raised = {}
    /\ session = [t \in DOMAIN g |-> SessionId]
    /\ queried = ""
    /\ answer = <<>>

AllPending(g) == [t \in DOMAIN g |-> "pending"]

AnyDescriptions(g) == [DOMAIN g -> Descriptions]
AllText(g) == {[t \in DOMAIN g |-> "text"]}

\* The diamond: A, B after A, C after A, D after B and C.
Diamond == <<{}, {1}, {1}, {2, 3}>>

\* A session with pending tasks (createTask) and one execute() run.
DagInit ==
    \E g \in Graphs \cup {Diamond} : DagStart(g, AllPending(g), AnyDescriptions(g), {1})

\* The head of a round: list the ready tasks, stop when there is none (or the round
\* bound is hit), else mark them all running and dispatch them.
DagRoundStart(e) ==
    /\ dagPc[e] = "loop"
    /\ IF RoundGuard(e)
       THEN LET ready == GetReadyTasks(SessionId) IN
            /\ round' = [round EXCEPT ![e] = @ + 1]
            /\ IF ready = <<>>
               THEN /\ dagPc' = [dagPc EXCEPT ![e] = "done"]
                    /\ UNCHANGED <<status, readyTasks, settled, resIdx, startedRound>>
               ELSE /\ status' = [t \in Tasks |-> IF t \in Range(ready) THEN "running"
                                                  ELSE status[t]]
                    /\ readyTasks' = [readyTasks EXCEPT ![e] = ready]
                    /\ settled' = [settled EXCEPT ![e] = [t \in Tasks |-> Unsettled]]
                    /\ resIdx' = [resIdx EXCEPT ![e] = 1]
                    /\ startedRound' = [startedRound EXCEPT ![e] =
                           [t \in Tasks |-> IF t \in Range(ready) THEN round[e] + 1 ELSE @[t]]]
                    /\ dagPc' = [dagPc EXCEPT ![e] = "await"]
       ELSE /\ dagPc' = [dagPc EXCEPT ![e] = "maxed"]
            /\ UNCHANGED <<round, status, readyTasks, settled, resIdx, startedRound>>
    /\ UNCHANGED <<libVars, regVars, agentVars, srvVars, repoVars, dependencies, result, execs, dagEvents, raised>>

\* One dispatched task settles, in any order among the round's tasks.
DagTaskSettle(e, t) ==
    /\ dagPc[e] = "await"
    /\ t \in Range(readyTasks[e])
    /\ settled[e][t] = Unsettled
    /\ \E d \in DispatchesOf(description[t]) :
          /\ settled' = [settled EXCEPT ![e][t] = ExecuteTask(d)]
          /\ raised' = IF d = "raised" THEN raised \cup {t} ELSE raised
    /\ UNCHANGED <<libVars, regVars, agentVars, srvVars, repoVars, dependencies, status, result, execs, round, dagPc,
                   readyTasks, resIdx, dagEvents, startedRound>>

\* Promise.allSettled has resolved: the next result is persisted and its event
\* yielded; after the last one the while loop goes on.
DagProcessResult(e) ==
    /\ dagPc[e] = "await"
    /\ \A t \in Range(readyTasks[e]) : settled[e][t] # Unsettled
    /\ ~RoundFinished(e)
    /\ LET t == readyTasks[e][resIdx[e]]
           r == settled[e][t]
       IN IF r.state = "fulfilled"
          THEN /\ status' = [status EXCEPT ![t] = "completed"]
               /\ result' = [result EXCEPT ![t] = r.value]
               /\ dagEvents' = Append(dagEvents, [type |-> "task_completed", taskId |-> t,
                                                  value |-> r.value, run |-> e, round |-> round[e]])
          ELSE /\ status' = [status EXCEPT ![t] = "failed"]
               /\ result' = [result EXCEPT ![t] = r.value]
               /\ dagEvents' = Append(dagEvents, [type |-> "task_failed", taskId |-> t,
                                                  value |-> r.value, run |-> e, round |-> round[e]])
    /\ resIdx' = [resIdx EXCEPT ![e] = @ + 1]
    /\ UNCHANGED <<libVars, regVars, agentVars, srvVars, repoVars, dependencies, execs, round, dagPc, readyTasks,
                   settled, startedRound, raised>>

\* The for loop over the results is done: back to the head of the while loop.
DagRoundEnd(e) ==
    /\ dagPc[e] = "await"
    /\ RoundFinished(e)
    /\ dagPc' = [dagPc EXCEPT ![e] = "loop"]
    /\ UNCHANGED <<libVars, regVars, agentVars, srvVars, repoVars, dependencies, status, result, execs, round,
                   readyTasks, settled, resIdx, dagEvents, startedRound, raised>>

\* ------------------------------------------- TaskRepository called directly
SessionIds == {"s1", "s2"}
Statuses == {"pending", "running", "completed", "failed"}
\* An id that no row of the table bears.
UnknownId == 0

\* Dependency lists of a table of n rows: ids of earlier rows and the unknown id.
RepoGraphs(n) == {g \in [1..n -> SUBSET (0..n)] : \A t \in 1..n : g[t] \subseteq 0..(t-1)}

\* Any table of NRepoTasks rows (createTask, updateStatus), no executor.
RepoInit ==
    /\ dependencies \in RepoGraphs(NRepoTasks)
    /\ status \in [1..NRepoTasks -> Statuses]
    /\ session \in [1..NRepoTasks -> SessionIds]
    /\ description = [t \in 1..NRepoTasks |-> "text"]
    /\ result = [t \in 1..NRepoTasks |-> ""]
    /\ execs = {}
    /\ round = [e \in ExecIds |-> 0]
    /\ dagPc = [e \in ExecIds |-> "idle"]
    /\ readyTasks = [e \in ExecIds |-> <<>>]
    /\ settled = [e \in ExecIds |-> <<>>]
    /\ resIdx = [e \in ExecIds |-> 0]
    /\ dagEvents = <<>>
    /\ startedRound = [e \in ExecIds |-> <<>>]
    /\ raised = {}
    /\ queried = ""
    /\ answer = <<>>

\* A call of getReadyTasks(sessionId).
RepoGetReadyTasks(sessionId) ==
    /\ queried = ""
    /\ queried' = sessionId
    /\ answer' = GetReadyTasks(sessionId)
    /\ UNCHANGED <<libVars, regVars, agentVars, srvVars, dependencies, status, result, execs, round, dagPc,
                   readyTasks, settled, resIdx, dagEvents, startedRound, raised, session,
                   description>>

NextRepo == \E sessionId \in SessionIds : RepoGetReadyTasks(sessionId)

\* A later execute() run on the session, started when the first one is over.
DagStartLater ==
    /\ execs = {1}
    /\ dagPc[1] \in {"done", "maxed"}
    /\ execs' = {1, 2}
    /\ dagPc' = [dagPc EXCEPT ![2] = "loop"]
    /\ UNCHANGED <<libVars, regVars, agentVars, srvVars, repoVars, dependencies, status, result, round,
                   readyTasks, settled, resIdx, dagEvents, startedRound, raised>>

\* Task graphs with cycles and unknown ids: a task has no dependency, or depends
\* on the task before it or the task after it (cyclically), or on an unknown id.
LoopGraphs ==
    {g \in [1..NTasks -> SUBSET (0..NTasks)] :
        \A t \in 1..NTasks :
            g[t] \in {{}, {UnknownId}, {IF t = 1 THEN NTasks ELSE t - 1},
                      {IF t = NTasks THEN 1 ELSE t + 1}}}

\* A chain of n tasks, each depending on the one before.
Chain(n) == [t \in 1..n |-> IF t = 1 THEN {} ELSE {t - 1}]

\* All tasks pending, but for the task f (if it is a row), which has failed.
OneFailed(g, f) == [t \in DOMAIN g |-> IF t = f THEN "failed" ELSE "pending"]

\* A session with any of these graphs, none or one of whose first NTasks tasks
\* has status failed (updateStatus), and one execute() run. The tasks of the
\* graphs that have a cycle or an unknown dependency are plain text: the kind of
\* a description has no part in which tasks are ready.
DagAnyInit ==
    \/ \E g \in Graphs :
          \E f \in 0..NTasks : DagStart(g, OneFailed(g, f), AnyDescriptions(g), {1})
    \/ \E g \in LoopGraphs :
          \E f \in 0..NTasks : DagStart(g, OneFailed(g, f), AllText(g), {1})
    \/ \E g \in {Chain(MAX_ROUNDS + 1)} :
          \E f \in 0..NTasks : DagStart(g, OneFailed(g, f), AllText(g), {1})

NextDag ==
    \/ \E e \in execs : DagRoundStart(e)
    \/ \E e \in execs : \E t \in Tasks : DagTaskSettle(e, t)
    \/ \E e \in execs : DagProcessResult(e)
    \/ \E e \in execs : DagRoundEnd(e)

\* ----------------------------------------------------------- SkillRegistry
SourceNames == {"a", "b"}
\* The tool names, in the order a source lists them.
ToolOrder == <<"x", "y">>
\* The tools a source of each name has: both sources have a tool named x.
SourceTools(name) == IF name = "a" THEN {"x"} ELSE {"x", "y"}

\* Registry constructed, no source, no call.
RegIdle ==
    /\ objs = <<>>
    /\ loaded = <<>>
    /\ initState = <<>>
    /\ destroys = <<>>
    /\ sources = <<>>
    /\ wasInstalled = {}
    /\ mutPc = "idle"
    /\ mutSrc = 0
    /\ mutOld = 0
    /\ mutResult = ""
    /\ lkPc = "idle"
    /\ lkKind = ""
    /\ lkTool = ""
    /\ lkIdx = 0
    /\ lkTools = <<>>
    /\ lkExecs = <<>>
    /\ lkRaised = {}
    /\ lkResult = ""
    /\ lkSeen = {}
    /\ lkAtStart = {}
    /\ lkFailed = {}
    /\ nOps = 0

\* this.sources.get(name): the id held under the name, 0 if none.
MapGet(map, name) ==
    IF \E i \in 1..Len(map) : objs[map[i]].name = name
    THEN map[CHOOSE i \in 1..Len(map) : objs[map[i]].name = name]
    ELSE 0

MapSetAppend(map, name, id) == Append(map, id)
\* this.sources.set(name, id): a present key keeps its place and gets the new
\* value, a new key is appended.
MapSet(map, name, id) ==
    IF \E i \in 1..Len(map) : objs[map[i]].name = name
    THEN [i \in 1..Len(map) |-> IF objs[map[i]].name = name THEN id ELSE map[i]]
    ELSE Append(map, id)

\* this.sources.delete(name)
MapDelete(map, name) == SelectSeq(map, LAMBDA id : objs[id].name # name)

\* The index of the entry of the name in the Map (0: none).
MapIndex(map, name) ==
    IF \E i \in 1..Len(map) : objs[map[i]].name = name
    THEN CHOOSE i \in 1..Len(map) : objs[map[i]].name = name
    ELSE 0

\* source.getTools(): the descriptors of the tools the source holds now.
GetTools(s) == SelectSeq(ToolOrder, LAMBDA t : t \in loaded[s])

\* The descriptors of a getTools() result, tagged with their source.
Descriptors(s) == [i \in 1..Len(GetTools(s)) |-> [name |-> GetTools(s)[i], src |-> s]]

InitializeNotAwaited(s) == TRUE
\* await source.initialize() has resolved: the source has loaded all its tools.
InitializeResolved(s) == loaded[s] = objs[s].tools

\* registerSource(source) up to its first await: a new source object is handed in;
\* if the name is taken, the old source's destroy() is awaited, else initialize().
RegisterStart(name) ==
    /\ mutPc = "idle"
    /\ nOps < NRegOps
    /\ Len(objs) < NSources
    /\ nOps' = nOps + 1
    /\ objs' = Append(objs, [name |-> name, tools |-> SourceTools(name)])
    /\ loaded' = Append(loaded, {})
    /\ destroys' = Append(destroys, 0)
    /\ mutSrc' = Len(objs) + 1
    /\ mutOld' = MapGet(sources, name)
    /\ mutResult' = ""
    /\ IF MapGet(sources, name) # 0
       THEN /\ mutPc' = "reg_destroy"
            /\ initState' = Append(initState, "new")
       ELSE /\ mutPc' = "reg_init"
            /\ initState' = Append(initState, "running")
    /\ UNCHANGED <<libVars, agentVars, srvVars, dagVars, lkAtStart, lkFailed, sources, wasInstalled, lkPc, lkKind, lkTool, lkIdx,
                   lkTools, lkExecs, lkRaised, lkResult, lkSeen>>

\* await old.destroy() is over (the source has cleared its skills); initialize()
\* of the new source is called.
RegDestroyOld ==
    /\ mutPc = "reg_destroy"
    /\ destroys' = [destroys EXCEPT ![mutOld] = @ + 1]
    /\ loaded' = [loaded EXCEPT ![mutOld] = {}]
    /\ initState' = [initState EXCEPT ![mutSrc] = "running"]
    /\ mutPc' = "reg_init"
    /\ UNCHANGED <<libVars, agentVars, srvVars, dagVars, lkAtStart, lkFailed, objs, sources, wasInstalled, mutSrc, mutOld, mutResult,
                   lkPc, lkKind, lkTool, lkIdx, lkTools, lkExecs, lkRaised, lkResult, lkSeen,
                   nOps>>

\* initialize() loads one more of the source's tools.
RegInitLoad(t) ==
    /\ mutPc = "reg_init"
    /\ t \in objs[mutSrc].tools \ loaded[mutSrc]
    /\ loaded' = [loaded EXCEPT ![mutSrc] = @ \cup {t}]
    /\ UNCHANGED <<libVars, agentVars, srvVars, dagVars, lkAtStart, lkFailed, objs, initState, destroys, sources,
                   wasInstalled, mutPc, mutSrc, mutOld, mutResult, lkPc, lkKind, lkTool,
                   lkIdx, lkTools, lkExecs, lkRaised, lkResult, lkSeen, nOps>>

\* initialize() has resolved: the source is set into the Map.
RegInitDone ==
    /\ mutPc = "reg_init"
    /\ InitializeResolved(mutSrc)
    /\ initState' = [initState EXCEPT ![mutSrc] = "done"]
    /\ sources' = MapSet(sources, objs[mutSrc].name, mutSrc)
    /\ wasInstalled' = wasInstalled \cup {mutSrc}
    /\ mutPc' = "idle"
    /\ mutResult' = "ok"
    /\ UNCHANGED <<libVars, agentVars, srvVars, dagVars, lkAtStart, lkFailed, objs, loaded, destroys, mutSrc, mutOld, lkPc,
                   lkKind, lkTool, lkIdx, lkTools, lkExecs, lkRaised, lkResult, lkSeen, nOps>>

\* initialize() has rejected: the error is logged and thrown again.
RegInitFail ==
    /\ mutPc = "reg_init"
    /\ initState' = [initState EXCEPT ![mutSrc] = "failed"]
    /\ mutPc' = "idle"
    /\ mutResult' = "error"
    /\ UNCHANGED <<libVars, agentVars, srvVars, dagVars, lkAtStart, lkFailed, objs, loaded, destroys, sources, wasInstalled, mutSrc,
                   mutOld, lkPc, lkKind, lkTool, lkIdx, lkTools, lkExecs, lkRaised, lkResult,
                   lkSeen, nOps>>

\* unregisterSource(name) up to its await: the source under the name is found and
\* its destroy() awaited.
UnregisterStart(name) ==
    /\ mutPc = "idle"
    /\ nOps < NRegOps
    /\ MapGet(sources, name) # 0
    /\ nOps' = nOps + 1
    /\ mutOld' = MapGet(sources, name)
    /\ mutSrc' = 0
    /\ mutPc' = "unreg_destroy"
    /\ UNCHANGED <<libVars, agentVars, srvVars, dagVars, lkAtStart, lkFailed, objs, loaded, initState, destroys, sources,
                   wasInstalled, mutResult, lkPc, lkKind, lkTool, lkIdx, lkTools, lkExecs,
                   lkRaised, lkResult, lkSeen>>

\* destroy() is over; the name is deleted from the Map. An iterator that has
\* passed the deleted entry moves back with it.
UnregDestroyed ==
    /\ mutPc = "unreg_destroy"
    /\ destroys' = [destroys EXCEPT ![mutOld] = @ + 1]
    /\ loaded' = [loaded EXCEPT ![mutOld] = {}]
    /\ sources' = MapDelete(sources, objs[mutOld].name)
    /\ lkIdx' = IF MapIndex(sources, objs[mutOld].name) <= lkIdx /\ lkIdx > 0
                THEN lkIdx - 1 ELSE lkIdx
    /\ mutPc' = "idle"
    /\ UNCHANGED <<libVars, agentVars, srvVars, dagVars, lkAtStart, lkFailed, objs, initState, wasInstalled, mutSrc, mutOld,
                   mutResult, lkPc, lkKind, lkTool, lkTools, lkExecs, lkRaised, lkResult,
                   lkSeen, nOps>>

\* getToolDefinitions() or executeAction(toolName, ...) is called.
LookupStart(kind, tool) ==
    /\ lkPc = "idle"
    /\ nOps < NRegOps
    /\ nOps' = nOps + 1
    /\ lkPc' = "iter"
    /\ lkKind' = kind
    /\ lkTool' = tool
    /\ lkIdx' = 0
    /\ lkTools' = <<>>
    /\ lkExecs' = <<>>
    /\ lkRaised' = {}
    /\ lkResult' = ""
    /\ lkSeen' = {}
    /\ lkAtStart' = Range(sources)
    /\ lkFailed' = {}
    /\ UNCHANGED <<libVars, agentVars, srvVars, dagVars, objs, loaded, initState, destroys, sources,
                   wasInstalled, mutPc, mutSrc, mutOld, mutResult>>

\* One pass of for (const source of this.sources.values()): getTools() of the next
\* entry; getToolDefinitions pushes the descriptors, executeAction calls execute
\* if the tool is among them. With no entry left the call returns the list, or
\* throws tool-not-found.
LookupNext ==
    /\ lkPc = "iter"
    /\ IF lkIdx < Len(sources)
       THEN LET s == sources[lkIdx + 1] IN
            /\ lkSeen' = lkSeen \cup {[src |-> s, init |-> initState[s]]}
            /\ IF lkKind = "defs"
               THEN /\ lkTools' = lkTools \o Descriptors(s)
                    /\ lkIdx' = lkIdx + 1
                    /\ UNCHANGED <<lkPc, lkExecs>>
               ELSE IF \E i \in 1..Len(GetTools(s)) : GetTools(s)[i] = lkTool
                    THEN /\ lkExecs' = Append(lkExecs, s)
                         /\ lkPc' = "exec"
                         /\ UNCHANGED <<lkIdx, lkTools>>
                    ELSE /\ lkIdx' = lkIdx + 1
                         /\ UNCHANGED <<lkPc, lkExecs, lkTools>>
            /\ UNCHANGED lkResult
       ELSE /\ lkPc' = "done"
            /\ lkResult' = IF lkKind = "defs" THEN "list" ELSE "notfound"
            /\ UNCHANGED <<lkIdx, lkTools, lkExecs, lkSeen>>
    /\ UNCHANGED <<libVars, agentVars, srvVars, dagVars, lkAtStart, lkFailed, objs, loaded, initState, destroys, sources,
                   wasInstalled, mutPc, mutSrc, mutOld, mutResult, lkKind, lkTool, lkRaised,
                   nOps>>

\* await source.execute(...) resolves: executeAction returns its result.
LookupExecReturns ==
    /\ lkPc = "exec"
    /\ lkPc' = "done"
    /\ lkResult' = "result"
    /\ UNCHANGED <<libVars, agentVars, srvVars, dagVars, lkAtStart, lkFailed, objs, loaded, initState, destroys, sources,
                   wasInstalled, mutPc, mutSrc, mutOld, mutResult, lkKind, lkTool, lkIdx,
                   lkTools, lkExecs, lkRaised, lkSeen, nOps>>

\* await source.execute(...) rejects: the catch inside the loop logs the error and
\* the loop goes on with the next source.
LookupExecRaises ==
    /\ lkPc = "exec"
    /\ lkRaised' = lkRaised \cup {lkExecs[Len(lkExecs)]}
    /\ lkIdx' = lkIdx + 1
    /\ lkPc' = "iter"
    /\ UNCHANGED <<libVars, agentVars, srvVars, dagVars, lkAtStart, lkFailed, objs, loaded, initState, destroys, sources,
                   wasInstalled, mutPc, mutSrc, mutOld, mutResult, lkKind, lkTool, lkTools,
                   lkExecs, lkResult, lkSeen, nOps>>

GetToolsErrorThrown == "done"
\* Where the lookup stands after getTools() of a source raised: the catch inside
\* the loop logs the error and the loop goes on.
GetToolsErrorCaught == "iter"

\* await source.getTools() rejects for the next entry of the Map.
LookupGetToolsFails ==
    /\ lkPc = "iter"
    /\ lkIdx < Len(sources)
    /\ lkFailed' = lkFailed \cup {sources[lkIdx + 1]}
    /\ lkIdx' = lkIdx + 1
    /\ lkPc' = GetToolsErrorCaught
    /\ UNCHANGED <<libVars, agentVars, srvVars, dagVars, objs, loaded, initState, destroys, sources,
                   wasInstalled, mutPc, mutSrc, mutOld, mutResult, lkKind, lkTool, lkTools,
                   lkExecs, lkRaised, lkResult, lkSeen, lkAtStart, nOps>>

NextRegistry ==
    \/ \E name \in SourceNames : RegisterStart(name)
    \/ RegDestroyOld
    \/ \E t \in {"x", "y"} : RegInitLoad(t)
    \/ RegInitDone
    \/ RegInitFail
    \/ \E name \in SourceNames : UnregisterStart(name)
    \/ UnregDestroyed
    \/ LookupStart("defs", "")
    \/ \E tool \in {"x", "y"} : LookupStart("exec", tool)
    \/ LookupNext
    \/ LookupExecReturns
    \/ LookupExecRaises

\* ---------------------------------------------------------- McpSkillSource
\* One McpSkillSource object and its callers: initialize() once, destroy() once,
\* getTools() and execute() at any time; the server and the timer queue answer
\* when they like.
McpConfigs == {"stdio", "sse", "stdioNoCommand", "sseNoUrl", "unknownType"}

\* createTransport(): the configs it throws for.
CreateTransportThrows(cfg) == cfg \in {"stdioNoCommand", "sseNoUrl", "unknownType"}

ConfigName == "filesystem"

\* constructor: this.name
McpName == "mcp-" \o ConfigName

\* What the server answers to listTools().
ServerTools == <<"read_file", "write_file">>

MapToolBare(t) == t

\* mapTool(): function.name
MapTool(t) == McpName \o "." \o t

Min(a, b) == IF a < b THEN a ELSE b

RECURSIVE Pow2(_)
Pow2(n) == IF n = 0 THEN 1 ELSE 2 * Pow2(n - 1)

ReconnectBaseDelay == 5000

maxReconnectDelay == 60000

ReconnectDelayLinear(n) == Min(ReconnectBaseDelay * n, maxReconnectDelay)

\* scheduleReconnect(): const delay, for reconnectAttempts = n after the increment.
ReconnectDelay(n) == Min(ReconnectBaseDelay * Pow2(n - 1), maxReconnectDelay)

\* reconnectAttempts++; the model stops counting at MaxReconnects, from where on
\* the delay no longer changes.
Increment(n) == Min(n + 1, MaxReconnects)

ReconnectNeverScheduled == TRUE

\* scheduleReconnect(): if (this.reconnectTimer) return
ReconnectAlreadyScheduled == reconnectTimer

\* getTools()
McpGetTools == IF ~connected THEN <<>> ELSE toolCache

McpExecuteForwards == "Forwarded"

\* execute(): the not-connected error, or the callTool request.
McpExecuteOutcome == IF ~connected THEN "NotConnected" ELSE "Forwarded"

\* A content block of a callTool response.
Block(type, text) == [type |-> type, text |-> text]
\* A callTool response: its content list, when it has one.
CallToolResult(hasContent, content) == [hasContent |-> hasContent, content |-> content]
\* The responses of the server: without a content list (a toolResult), with an
\* empty one, with text blocks only, with other blocks only, and mixed.
McpResponses ==
    {CallToolResult(FALSE, <<>>),
     CallToolResult(TRUE, <<>>),
     CallToolResult(TRUE, <<Block("text", "a")>>),
     CallToolResult(TRUE, <<Block("text", "a"), Block("text", "b")>>),
     CallToolResult(TRUE, <<Block("image", "")>>),
     CallToolResult(TRUE, <<Block("image", ""), Block("text", "a")>>),
     CallToolResult(TRUE, <<Block("text", "a"), Block("image", ""), Block("text", "b")>>)}
\* execute() returned nothing: it has not been called, or it threw.
NoResult == [kind |-> "none", text |-> "", raw |-> CallToolResult(FALSE, <<>>)]
\* texts.join('\n')
RECURSIVE JoinLines(_)
JoinLines(texts) ==
    IF texts = <<>> THEN ""
    ELSE IF Len(texts) = 1 THEN texts[1]
         ELSE texts[1] \o "\n" \o JoinLines(Tail(texts))
\* result.content.filter(c => c.type === 'text').map(c => c.text)
TextsOf(content) ==
    LET blocks == SelectSeq(content, LAMBDA c : c.type = "text")
    IN  [i \in 1..Len(blocks) |-> blocks[i].text]
\* What execute() returns for a callTool result.
ExtractResult(res) ==
    IF res.hasContent
    THEN LET texts == TextsOf(res.content)
         IN  [kind |-> "text",
              text |-> IF Len(texts) = 1 THEN texts[1] ELSE JoinLines(texts),
              raw |-> CallToolResult(FALSE, <<>>)]
    ELSE [kind |-> "raw", text |-> "", raw |-> res]

\* The server of the other specifications answers with one text block.
ExecIdle ==
    /\ callToolResponse = CallToolResult(TRUE, <<Block("text", "a")>>)
    /\ mcpResult = NoResult

\* The object after its constructor, for a config.
McpNew(cfg) ==
    /\ mcpConfig = cfg
    /\ connected = FALSE
    /\ toolCache = <<>>
    /\ reconnectTimer = FALSE
    /\ reconnectAttempts = 0
    /\ liveTimers = 0
    /\ timerDelay = 0
    /\ mcpInit = "new"
    /\ connPc = "idle"
    /\ connBy = ""
    /\ destroyPc = "none"
    /\ mcpExec = ""
    /\ callToolReqs = 0
    /\ mcpCalls = 0
    /\ mcpGot = <<"none">>
    /\ mcpFailed = 0
    /\ mcpLog = <<>>
    /\ startedAfterDestroy = FALSE
    /\ scheduledAfterDestroy = FALSE
    /\ inFlightAtDestroy = FALSE
    /\ listed = ""

McpIdle == McpNew("stdio")

\* The attempts log: the delay the attempt's timer was set with (0 for the one
\* initialize() makes) and how the handshake ended.
LogStart(delay) ==
    IF Len(mcpLog) < MaxReconnects
    THEN Append(mcpLog, [delay |-> delay, outcome |-> "inflight"])
    ELSE mcpLog

LogEnd(outcome) ==
    IF mcpLog # <<>> /\ mcpLog[Len(mcpLog)].outcome = "inflight"
    THEN [mcpLog EXCEPT ![Len(mcpLog)].outcome = outcome]
    ELSE mcpLog

\* initialize(): createTransport() throws, or connect() starts the handshake.
McpInitialize ==
    /\ mcpInit = "new"
    /\ destroyPc = "none"
    /\ IF CreateTransportThrows(mcpConfig)
       THEN /\ mcpInit' = "rejectedConfig"
            /\ UNCHANGED <<connPc, connBy, mcpLog>>
       ELSE /\ mcpInit' = "running"
            /\ connPc' = "handshake"
            /\ connBy' = "init"
            /\ mcpLog' = LogStart(0)
    /\ UNCHANGED <<otherVars, listed, mcpConfig, connected, toolCache, reconnectTimer,
                   reconnectAttempts, liveTimers, timerDelay, destroyPc, mcpExec,
                   callToolReqs, mcpCalls, mcpGot, mcpFailed, startedAfterDestroy,
                   scheduledAfterDestroy, inFlightAtDestroy>>

\* connect(): await this.client.connect() resolved; refreshTools() starts.
McpConnectResolves ==
    /\ connPc = "handshake"
    /\ connected' = TRUE
    /\ reconnectAttempts' = 0
    /\ mcpFailed' = 0
    /\ connPc' = "listing"
    /\ mcpLog' = LogEnd("ok")
    /\ UNCHANGED <<otherVars, listed, mcpConfig, toolCache, reconnectTimer, liveTimers,
                   timerDelay, mcpInit, connBy, destroyPc, mcpExec, callToolReqs,
                   mcpCalls, mcpGot, startedAfterDestroy, scheduledAfterDestroy,
                   inFlightAtDestroy>>

\* connect() returns to its caller: initialize() resolves.
ConnectReturned == IF connBy = "init" THEN "resolved" ELSE mcpInit

\* refreshTools(): listTools() answered.
McpListToolsOk ==
    /\ connPc = "listing"
    /\ listed' = "ok"
    /\ toolCache' = [i \in 1..Len(ServerTools) |-> MapTool(ServerTools[i])]
    /\ connPc' = "idle"
    /\ mcpInit' = ConnectReturned
    /\ UNCHANGED <<otherVars, mcpConfig, connected, reconnectTimer, reconnectAttempts,
                   liveTimers, timerDelay, connBy, destroyPc, mcpExec, callToolReqs,
                   mcpCalls, mcpGot, mcpFailed, mcpLog, startedAfterDestroy,
                   scheduledAfterDestroy, inFlightAtDestroy>>

\* refreshTools(): listTools() raised; the error is logged only.
McpListToolsFails ==
    /\ connPc = "listing"
    /\ listed' = "failed"
    /\ toolCache' = <<>>
    /\ connPc' = "idle"
    /\ mcpInit' = ConnectReturned
    /\ UNCHANGED <<otherVars, mcpConfig, connected, reconnectTimer, reconnectAttempts,
                   liveTimers, timerDelay, connBy, destroyPc, mcpExec, callToolReqs,
                   mcpCalls, mcpGot, mcpFailed, mcpLog, startedAfterDestroy,
                   scheduledAfterDestroy, inFlightAtDestroy>>

\* connect(): the handshake raised; catch: scheduleReconnect() and rethrow.
McpConnectRejects ==
    /\ connPc = "handshake"
    /\ connected' = FALSE
    /\ mcpFailed' = Increment(mcpFailed)
    /\ mcpLog' = LogEnd("failed")
    /\ IF ReconnectAlreadyScheduled
       THEN UNCHANGED <<reconnectAttempts, timerDelay, reconnectTimer, liveTimers,
                        scheduledAfterDestroy>>
       ELSE /\ reconnectAttempts' = Increment(reconnectAttempts)
            /\ timerDelay' = ReconnectDelay(reconnectAttempts')
            /\ reconnectTimer' = TRUE
            /\ liveTimers' = liveTimers + 1
            /\ scheduledAfterDestroy' = (scheduledAfterDestroy \/ destroyPc = "done")
    /\ connPc' = "idle"
    /\ mcpInit' = IF connBy = "init" THEN "rejectedConnect" ELSE mcpInit
    /\ UNCHANGED <<otherVars, listed, mcpConfig, toolCache, connBy, destroyPc, mcpExec,
                   callToolReqs, mcpCalls, mcpGot, startedAfterDestroy,
                   inFlightAtDestroy>>

\* The setTimeout callback: a new transport and client, then connect().
McpTimerFires ==
    /\ liveTimers > 0
    /\ reconnectTimer' = FALSE
    /\ liveTimers' = liveTimers - 1
    /\ connPc' = "handshake"
    /\ connBy' = "timer"
    /\ mcpLog' = LogStart(timerDelay)
    /\ startedAfterDestroy' = (startedAfterDestroy \/ destroyPc = "done")
    /\ UNCHANGED <<otherVars, listed, mcpConfig, connected, toolCache, reconnectAttempts,
                   timerDelay, mcpInit, destroyPc, mcpExec, callToolReqs, mcpCalls,
                   mcpGot, mcpFailed, scheduledAfterDestroy, inFlightAtDestroy>>

\* destroy() up to its first await: the pending timer is cleared.
McpDestroyStart ==
    /\ destroyPc = "none"
    /\ destroyPc' = "closing"
    /\ inFlightAtDestroy' = (connPc # "idle")
    /\ IF reconnectTimer
       THEN /\ liveTimers' = liveTimers - 1
            /\ reconnectTimer' = FALSE
       ELSE UNCHANGED <<liveTimers, reconnectTimer>>
    /\ UNCHANGED <<otherVars, listed, mcpConfig, connected, toolCache, reconnectAttempts,
                   timerDelay, mcpInit, connPc, connBy, mcpExec, callToolReqs,
                   mcpCalls, mcpGot, mcpFailed, mcpLog, startedAfterDestroy,
                   scheduledAfterDestroy>>

\* destroy() after client.close() and transport.close() settled.
McpDestroyFinish ==
    /\ destroyPc = "closing"
    /\ connected' = FALSE
    /\ toolCache' = <<>>
    /\ destroyPc' = "done"
    /\ UNCHANGED <<otherVars, listed, mcpConfig, reconnectTimer, reconnectAttempts, liveTimers,
                   timerDelay, mcpInit, connPc, connBy, mcpExec, callToolReqs,
                   mcpCalls, mcpGot, mcpFailed, mcpLog, startedAfterDestroy,
                   scheduledAfterDestroy, inFlightAtDestroy>>

\* A caller's getTools().
McpGetToolsCall ==
    /\ mcpGot' = McpGetTools
    /\ mcpGot' # mcpGot
    /\ UNCHANGED <<otherVars, listed, mcpConfig, connected, toolCache, reconnectTimer,
                   reconnectAttempts, liveTimers, timerDelay, mcpInit, connPc, connBy,
                   destroyPc, mcpExec, callToolReqs, mcpCalls, mcpFailed, mcpLog,
                   startedAfterDestroy, scheduledAfterDestroy, inFlightAtDestroy>>

\* A caller's execute().
McpExecute ==
    /\ mcpCalls < MaxMcpCalls
    /\ mcpCalls' = mcpCalls + 1
    /\ mcpExec' = McpExecuteOutcome
    /\ callToolReqs' = IF mcpExec' = "Forwarded" THEN callToolReqs + 1 ELSE callToolReqs
    /\ mcpResult' = IF mcpExec' = "Forwarded" THEN ExtractResult(callToolResponse)
                                              ELSE NoResult
    /\ UNCHANGED <<notExecVars, callToolResponse, listed, mcpConfig, connected, toolCache, reconnectTimer,
                   reconnectAttempts, liveTimers, timerDelay, mcpInit, connPc, connBy,
                   destroyPc, mcpGot, mcpFailed, mcpLog, startedAfterDestroy,
                   scheduledAfterDestroy, inFlightAtDestroy>>

NextMcp ==
    \/ McpInitialize
    \/ McpConnectResolves
    \/ McpListToolsOk
    \/ McpListToolsFails
    \/ McpConnectRejects
    \/ McpTimerFires
    \/ McpDestroyStart
    \/ McpDestroyFinish
    \/ McpGetToolsCall
    \/ McpExecute

\* ---------------------------------------------------------- ContextManager
\* One trimMessages() call. A message is its role, the length of its content,
\* the length of JSON.stringify(toolCalls) (0: no toolCalls) and a mark telling
\* where it comes from: 0 the system prompt, i the i-th history message, 100 + j
\* the j-th current-turn message, -1 the model's summary, -2 the fallback summary.
Message(role, len, tc, id) == [role |-> role, len |-> len, tc |-> tc, id |-> id]

\* The kinds of history message drawn: a question, a short answer, an empty
\* answer, a long question, an answer that only carries tool calls.
HistoryKinds ==
    { <<"user", 30, 0>>, <<"assistant", 6, 0>>, <<"assistant", 0, 0>>,
      <<"user", 300, 0>>, <<"assistant", 0, 60>> }

\* Histories of up to n messages.
Histories(n) ==
    UNION { { [i \in 1..k |-> Message(f[i][1], f[i][2], f[i][3], i)] :
              f \in [1..k -> HistoryKinds] } : k \in 0..n }

SystemMessages == { Message("system", 3, 0, 0), Message("system", 30, 0, 0) }

CurrentTurns ==
    { << Message("user", 3, 0, 101) >>,
      << Message("user", 30, 0, 101), Message("assistant", 0, 60, 102),
         Message("tool", 6, 0, 103) >> }

\* Lengths of the text the summarising model may answer with.
SummaryLengths == {0, 30, 900}

\* Math.ceil(n / 3)
Ceil3(n) == (n + 2) \div 3

\* estimateTokens(), one message.
MsgTokens(msg) == Ceil3(msg.len) + IF msg.tc > 0 THEN Ceil3(msg.tc) ELSE 0

RECURSIVE EstimateTokens(_)
\* estimateTokens()
EstimateTokens(msgs) ==
    IF msgs = <<>> THEN 0 ELSE MsgTokens(Head(msgs)) + EstimateTokens(Tail(msgs))

HistoryNeverFits(historyTokens, historyBudget) == FALSE

\* trimMessages(): if (historyTokens <= historyBudget)
HistoryFits(historyTokens, historyBudget) == historyTokens <= historyBudget

RECURSIVE SplitWalk(_, _, _, _)
\* splitHistory(): the backwards walk from index i (0-based), to splitIndex.
SplitWalk(h, i, keptTokens, keepBudget) ==
    IF i < 0 THEN 0
    ELSE IF keptTokens + MsgTokens(h[i + 1]) > keepBudget THEN i + 1
    ELSE SplitWalk(h, i - 1, keptTokens + MsgTokens(h[i + 1]), keepBudget)

\* The walk alone, without the rule of the last two messages.
SplitIndexWalkOnly(h, tokenBudget) ==
    SplitWalk(h, Len(h) - 1, 0, (4 * tokenBudget) \div 5)

\* splitHistory(): splitIndex. Math.floor(tokenBudget * 0.8) is (4 * tokenBudget) \div 5.
SplitIndex(h, tokenBudget) ==
    LET keepBudget == (4 * tokenBudget) \div 5
        walked == SplitWalk(h, Len(h) - 1, 0, keepBudget)
    IN  IF walked >= Len(h) - 1
        THEN IF Len(h) - 2 > 0 THEN Len(h) - 2 ELSE 0
        ELSE walked

\* splitHistory()
SplitHistory(h, tokenBudget) ==
    LET splitIndex == SplitIndex(h, tokenBudget)
    IN  [trimmed |-> SubSeq(h, 1, splitIndex), kept |-> SubSeq(h, splitIndex + 1, Len(h))]

RECURSIVE Digits(_)
\* The length of a count written in decimal.
Digits(n) == IF n < 10 THEN 1 ELSE 1 + Digits(n \div 10)

RECURSIVE JoinedLength(_)
\* topics.join('；'): its length, for the lengths of the topics.
JoinedLength(lens) ==
    IF lens = <<>> THEN 0
    ELSE IF Len(lens) = 1 THEN lens[1]
    ELSE lens[1] + 1 + JoinedLength(Tail(lens))

\* fallbackSummary(): the last five user messages, the first 100 characters of
\* each, the empty ones dropped, inside a fixed text of 26 characters and a count.
FallbackSummary(msgs) ==
    LET users == SelectSeq(msgs, LAMBDA x : x.role = "user")
        last5 == SubSeq(users, IF Len(users) > 5 THEN Len(users) - 4 ELSE 1, Len(users))
        topics == SelectSeq([i \in 1..Len(last5) |-> Min(last5[i].len, 100)],
                            LAMBDA n : n > 0)
    IN  Message("system", 13 + JoinedLength(topics) + 3 + Digits(Len(msgs)) + 10, 0, -2)

\* generateSummary(): the message around a summary of n characters.
GeneratedSummary(n) == Message("system", 13 + n + 16, 0, -1)

AssembleNoCurrent(sys, middle, current) == <<sys>> \o middle

\* The returned array: [systemMessage, ...middle, ...currentMessages]
Assemble(sys, middle, current) == <<sys>> \o middle \o current

SummaryFailureThrown == "thrown"

\* trimMessages(): catch (error) around generateSummary, then the return.
SummaryFailureCaught == "returned"

\* No trimMessages() call.
CtxIdle ==
    /\ maxTokens = 0
    /\ reservedTokens = 0
    /\ systemMessage = Message("system", 0, 0, 0)
    /\ history = <<>>
    /\ currentMessages = <<>>
    /\ llm = FALSE
    /\ trimPc = "idle"
    /\ kept = <<>>
    /\ trimmed = <<>>
    /\ trimResult = <<>>
    /\ summaryOutcome = ""
    /\ chatCalls = 0

\* A ContextManager and the arguments of the call.
CtxInit ==
    /\ maxTokens \in {6, 40, 200}
    /\ reservedTokens \in {0, 4}
    /\ systemMessage \in SystemMessages
    /\ history \in Histories(MaxHistory)
    /\ currentMessages \in CurrentTurns
    /\ llm \in BOOLEAN
    /\ trimPc = "called"
    /\ kept = <<>>
    /\ trimmed = <<>>
    /\ trimResult = <<>>
    /\ summaryOutcome = ""
    /\ chatCalls = 0

\* trimMessages() up to its return or to the await of generateSummary().
TrimMessages ==
    /\ trimPc = "called"
    /\ LET budget == maxTokens - reservedTokens
           fixedTokens == EstimateTokens(<<systemMessage>> \o currentMessages)
           historyBudget == budget - fixedTokens
           historyTokens == EstimateTokens(history)
           split == SplitHistory(history, historyBudget)
       IN  IF fixedTokens >= budget
           THEN /\ trimResult' = Assemble(systemMessage, <<>>, currentMessages)
                /\ trimPc' = "returned"
                /\ UNCHANGED <<kept, trimmed, chatCalls>>
           ELSE IF HistoryFits(historyTokens, historyBudget)
           THEN /\ trimResult' = Assemble(systemMessage, history, currentMessages)
                /\ trimPc' = "returned"
                /\ UNCHANGED <<kept, trimmed, chatCalls>>
           ELSE /\ kept' = split.kept
                /\ trimmed' = split.trimmed
                /\ IF split.trimmed = <<>>
                   THEN /\ trimResult' = Assemble(systemMessage, split.kept, currentMessages)
                        /\ trimPc' = "returned"
                        /\ UNCHANGED chatCalls
                   ELSE IF llm
                   THEN /\ trimPc' = "summarising"
                        /\ chatCalls' = chatCalls + 1
                        /\ UNCHANGED trimResult
                   ELSE /\ trimResult' = Assemble(systemMessage,
                                             <<FallbackSummary(split.trimmed)>> \o split.kept,
                                             currentMessages)
                        /\ trimPc' = "returned"
                        /\ UNCHANGED chatCalls
    /\ UNCHANGED <<notCtxVars, maxTokens, reservedTokens, systemMessage, history,
                   currentMessages, llm, summaryOutcome>>

\* llm.chat() answered with a summary of n characters.
SummaryResolves(n) ==
    /\ trimPc = "summarising"
    /\ summaryOutcome' = "ok"
    /\ trimResult' = Assemble(systemMessage, <<GeneratedSummary(n)>> \o kept, currentMessages)
    /\ trimPc' = "returned"
    /\ UNCHANGED <<notCtxVars, maxTokens, reservedTokens, systemMessage, history,
                   currentMessages, llm, kept, trimmed, chatCalls>>

\* llm.chat() raised, or its answer could not be read.
SummaryRejects ==
    /\ trimPc = "summarising"
    /\ summaryOutcome' = "failed"
    /\ trimResult' = Assemble(systemMessage, <<FallbackSummary(trimmed)>> \o kept,
                              currentMessages)
    /\ trimPc' = SummaryFailureCaught
    /\ UNCHANGED <<notCtxVars, maxTokens, reservedTokens, systemMessage, history,
                   currentMessages, llm, kept, trimmed, chatCalls>>

NextCtx ==
    \/ TrimMessages
    \/ \E n \in SummaryLengths : SummaryResolves(n)
    \/ SummaryRejects

\* ------------------------------------------------------ SessionMemoryManager
\* One SessionMemoryManager and its callers. Its methods have no await: each call
\* is one step. Date.now() never goes back and may stand still between calls.
MemSessionIds ==
    1..(IF maxSessions + 1 > NMemSessions THEN maxSessions + 1 ELSE NMemSessions)

\* accessOrder.set(sessionId, t): a Map keeps the place of a key it already holds.
AccessSet(order, sessionId, t) ==
    IF \E i \in 1..Len(order) : order[i].id = sessionId
    THEN [i \in 1..Len(order) |->
            IF order[i].id = sessionId THEN [id |-> sessionId, at |-> t] ELSE order[i]]
    ELSE Append(order, [id |-> sessionId, at |-> t])

\* accessOrder.delete(sessionId)
AccessDelete(order, sessionId) == SelectSeq(order, LAMBDA e : e.id # sessionId)

\* The first entry of [...accessOrder.entries()].sort((a, b) => a[1] - b[1]): the
\* sort is stable, so the earliest inserted of the entries with the least time.
Oldest(order) ==
    LET least == CHOOSE i \in 1..Len(order) :
                    \A j \in 1..Len(order) :
                        \/ order[i].at < order[j].at
                        \/ (order[i].at = order[j].at /\ i <= j)
    IN  order[least].id

\* evictLRU(): Math.max(1, Math.floor(this.maxSessions * 0.1))
ToEvict == IF maxSessions \div 10 > 1 THEN maxSessions \div 10 ELSE 1

RECURSIVE Evict(_, _, _)
\* evictLRU(): the loop, deleteSession() on the first n entries of sorted.
Evict(n, held, order) ==
    IF n = 0 \/ order = <<>> THEN [sessions |-> held, accessOrder |-> order]
    ELSE Evict(n - 1, held \ {Oldest(order)}, AccessDelete(order, Oldest(order)))

\* evictLRU()
EvictLRU(held, order) == Evict(ToEvict, held, order)

SessionsOverLimit(size) == size > maxSessions

SessionsAtLimitLate(size) == size >= maxSessions + 1

\* getSession(): if (this.sessions.size >= this.maxSessions)
SessionsAtLimit(size) == size >= maxSessions

\* No call made on the manager.
MemIdle ==
    /\ sessions = {}
    /\ accessOrder = <<>>
    /\ maxSessions = 1
    /\ now = 0
    /\ memLast = ""
    /\ memOps = 0
    /\ evictions = 0

\* A manager after its constructor, for the limits drawn.
MemInit ==
    /\ sessions = {}
    /\ accessOrder = <<>>
    /\ maxSessions \in 1..(NMemSessions - 1)
    /\ now = 0
    /\ memLast = ""
    /\ memOps = 0
    /\ evictions = 0

\* getSession(sessionId), Date.now() giving t.
GetSession(sessionId, t) ==
    /\ memOps < NMemOps
    /\ memOps' = memOps + 1
    /\ now' = t
    /\ memLast' = "getSession"
    /\ LET order == AccessSet(accessOrder, sessionId, t)
       IN  IF sessionId \notin sessions
           THEN LET after == IF SessionsAtLimit(Cardinality(sessions))
                             THEN EvictLRU(sessions, order)
                             ELSE [sessions |-> sessions, accessOrder |-> order]
                IN  /\ sessions' = after.sessions \cup {sessionId}
                    /\ accessOrder' = after.accessOrder
                    /\ evictions' = evictions + Cardinality(sessions \ after.sessions)
           ELSE /\ accessOrder' = order
                /\ UNCHANGED <<sessions, evictions>>
    /\ UNCHANGED <<notMemVars, maxSessions>>

\* deleteSession(sessionId)
DeleteSession(sessionId) ==
    /\ memOps < NMemOps
    /\ memOps' = memOps + 1
    /\ memLast' = "deleteSession"
    /\ sessions' = sessions \ {sessionId}
    /\ accessOrder' = AccessDelete(accessOrder, sessionId)
    /\ UNCHANGED <<notMemVars, maxSessions, now, evictions>>

\* cleanup(), called by the interval timer or directly.
Cleanup ==
    /\ memOps < NMemOps
    /\ memOps' = memOps + 1
    /\ memLast' = "cleanup"
    /\ IF SessionsOverLimit(Cardinality(sessions))
       THEN LET after == EvictLRU(sessions, accessOrder)
            IN  /\ sessions' = after.sessions
                /\ accessOrder' = after.accessOrder
                /\ evictions' = evictions + Cardinality(sessions \ after.sessions)
       ELSE UNCHANGED <<sessions, accessOrder, evictions>>
    /\ UNCHANGED <<notMemVars, maxSessions, now>>

\* destroy()
MemDestroy ==
    /\ memOps < NMemOps
    /\ memOps' = memOps + 1
    /\ memLast' = "destroy"
    /\ sessions' = {}
    /\ accessOrder' = <<>>
    /\ UNCHANGED <<notMemVars, maxSessions, now, evictions>>

\* A manager after its constructor, for every limit the option may carry.
MemAnyInit ==
    /\ sessions = {}
    /\ accessOrder = <<>>
    /\ maxSessions \in 0..(NMemSessions - 1)
    /\ now = 0
    /\ memLast = ""
    /\ memOps = 0
    /\ evictions = 0

\* The limits of the managers that are met full.
FullSizes == {2, 11, 20}

\* A manager that holds maxSessions sessions, created in the order of their ids:
\* never accessed again, all within the same millisecond, or accessed again in the
\* reverse order; NFullCalls further calls are made on it.
MemFullInit ==
    /\ maxSessions \in FullSizes
    /\ sessions = 1..maxSessions
    /\ \E shape \in {"created", "same", "reversed"} :
          /\ accessOrder = [i \in 1..maxSessions |->
                              [id |-> i,
                               at |-> CASE shape = "created" -> i
                                        [] shape = "same" -> 1
                                        [] shape = "reversed" -> maxSessions + 1 - i]]
          /\ now = IF shape = "same" THEN 1 ELSE maxSessions
    /\ memLast = "getSession"
    /\ memOps = NMemOps - NFullCalls
    /\ evictions = 0

NextMem ==
    \/ \E sessionId \in MemSessionIds, t \in {now, now + 1} : GetSession(sessionId, t)
    \/ \E sessionId \in MemSessionIds : DeleteSession(sessionId)
    \/ Cleanup
    \/ MemDestroy

\* ------------------------------------------------- OpenAIAdapter.chatStream
\* A chunk of the provider's stream: a content delta, one element of
\* delta.tool_calls (its index, whether it carries the call id, and its fragment
\* of function.arguments), or the chunk that carries finish_reason.
Delta(kind, index, id, arguments) ==
    [kind |-> kind, index |-> index, id |-> id, arguments |-> arguments]
ContentDelta == Delta("content", 0, FALSE, "")
FinishChunk == Delta("finish", 0, FALSE, "")
ToolDeltas == {Delta("tool", i, id, a) : i \in 0..1, id \in BOOLEAN, a \in {"", "x", "y"}}
\* The tool calls a stream carries, by index.
IndexesOf(s) == {s[k].index : k \in {j \in 1..Len(s) : s[j].kind = "tool"}}
\* What a provider sends: the first delta of a call carries its id, the calls start
\* in the order of their indexes, and the last chunk carries finish_reason.
WellFormed(s) ==
    /\ \A k \in 1..Len(s) :
          s[k].kind = "tool" =>
              /\ (\A j \in 1..(k - 1) : ~(s[j].kind = "tool" /\ s[j].index = s[k].index))
                    => s[k].id
              /\ s[k].index = 1 => \E j \in 1..(k - 1) : s[j].kind = "tool" /\ s[j].index = 0
ProviderStreams ==
    {Append(s, FinishChunk) :
        s \in {t \in UNION {[1..n -> ToolDeltas \cup {ContentDelta}] : n \in 0..MaxDeltas} :
                  WellFormed(t)}}
\* The id the provider gives the call of an index.
CallId(index) == IF index = 0 THEN "call_0" ELSE "call_1"
\* let currentToolCall = null
NoToolCall == [id |-> "", arguments |-> ""]
\* The chunks chatStream yields.
ContentChunk == [type |-> "content", id |-> "", arguments |-> ""]
DoneChunk == [type |-> "done", id |-> "", arguments |-> ""]
ToolCallChunk(tc) == [type |-> "tool_call", id |-> tc.id, arguments |-> tc.arguments]

ChatIdle ==
    /\ providerStream = <<>>
    /\ streamPos = 1
    /\ currentToolCall = NoToolCall
    /\ yielded = <<>>

\* chatStream() called; the provider's stream is one of those of the model.
ChatInit ==
    /\ providerStream \in ProviderStreams
    /\ streamPos = 1
    /\ currentToolCall = NoToolCall
    /\ yielded = <<>>

\* The loop takes a chunk whose delta has content.
ChatStreamContent ==
    /\ streamPos <= Len(providerStream)
    /\ providerStream[streamPos].kind = "content"
    /\ yielded' = Append(yielded, ContentChunk)
    /\ streamPos' = streamPos + 1
    /\ UNCHANGED <<providerStream, currentToolCall, notChatVars>>

\* The loop takes a chunk whose delta has a tool call element: with an id a new
\* call is started and the current one yielded; without, a fragment that is not
\* empty is appended to the current call.
ChatStreamToolCall ==
    LET tc == providerStream[streamPos]
    IN  /\ streamPos <= Len(providerStream)
        /\ tc.kind = "tool"
        /\ IF tc.id
           THEN /\ yielded' = IF currentToolCall # NoToolCall
                              THEN Append(yielded, ToolCallChunk(currentToolCall))
                              ELSE yielded
                /\ currentToolCall' = [id |-> CallId(tc.index), arguments |-> tc.arguments]
           ELSE /\ currentToolCall' =
                      IF tc.arguments # "" /\ currentToolCall # NoToolCall
                      THEN [currentToolCall EXCEPT !.arguments = @ \o tc.arguments]
                      ELSE currentToolCall
                /\ UNCHANGED yielded
        /\ streamPos' = streamPos + 1
        /\ UNCHANGED <<providerStream, notChatVars>>

\* The loop takes the chunk that has finish_reason: the current call is yielded,
\* then done.
ChatStreamFinish ==
    /\ streamPos <= Len(providerStream)
    /\ providerStream[streamPos].kind = "finish"
    /\ yielded' = IF currentToolCall # NoToolCall
                  THEN Append(Append(yielded, ToolCallChunk(currentToolCall)), DoneChunk)
                  ELSE Append(yielded, DoneChunk)
    /\ streamPos' = streamPos + 1
    /\ UNCHANGED <<providerStream, currentToolCall, notChatVars>>

NextChat == ChatStreamContent \/ ChatStreamToolCall \/ ChatStreamFinish

\* ------------------------------------ remote sources registered by the host
\* main() and the /api/mcp/config handlers construct McpSkillSource objects and
\* hand them to the registry; the calls of different requests interleave at
\* their awaits.
\* A call slot of the registry in which no call is pending.
NoHostCall == [pc |-> "idle", src |-> 0, old |-> 0]
\* Slot c is the first one in which no call is pending.
HostFree(c) ==
    /\ hostCalls[c].pc = "idle"
    /\ \A d \in 1..(c - 1) : hostCalls[d].pc # "idle"

HostIdle ==
    /\ hostCalls = [c \in 1..NHostCalls |-> NoHostCall]
    /\ srcConnected = <<>>
    /\ srcTimer = <<>>
    /\ srcAttempt = <<>>
    /\ hostOps = 0

\* The source is the one the registry holds under its name.
Installed(s) == MapGet(sources, objs[s].name) = s
\* getToolDefinitions(): the tools of the installed sources; a source that is
\* not connected lists none.
HostToolDefinitions ==
    {[src |-> s, name |-> t] : s \in {x \in 1..Len(objs) : Installed(x) /\ srcConnected[x]},
                               t \in ToolOrder} \cap
    {[src |-> s, name |-> t] : s \in 1..Len(objs), t \in UNION {loaded[x] : x \in 1..Len(objs)}}
\* scheduleReconnect(): a timer is set unless one is pending.
ScheduleReconnect(timers, s) == [timers EXCEPT ![s] = TRUE]

\* new McpSkillSource(config) and registerSource(source) up to its first await:
\* destroy() of the source held under the name, which clears its reconnect timer
\* at once, or initialize() of the new source.
HostRegisterStart(c, name) ==
    LET new == Len(objs) + 1
        old == MapGet(sources, name)
    IN  /\ HostFree(c)
        /\ hostOps < NHostOps
        /\ Len(objs) < NSources
        /\ hostOps' = hostOps + 1
        /\ objs' = Append(objs, [name |-> name, tools |-> SourceTools(name)])
        /\ loaded' = Append(loaded, {})
        /\ destroys' = Append(destroys, 0)
        /\ srcConnected' = Append(srcConnected, FALSE)
        /\ srcAttempt' = Append(srcAttempt, FALSE)
        /\ IF old # 0
           THEN /\ hostCalls' = [hostCalls EXCEPT ![c] = [pc |-> "reg_destroy", src |-> new,
                                                         old |-> old]]
                /\ initState' = Append(initState, "new")
                /\ srcTimer' = Append([srcTimer EXCEPT ![old] = FALSE], FALSE)
           ELSE /\ hostCalls' = [hostCalls EXCEPT ![c] = [pc |-> "reg_init", src |-> new,
                                                         old |-> 0]]
                /\ initState' = Append(initState, "running")
                /\ srcTimer' = Append(srcTimer, FALSE)
        /\ UNCHANGED <<sources, regCallVars, notHostVars>>

\* await old.destroy() is over: the old source is disconnected and has no tools;
\* initialize() of the new source is called.
HostDestroyOld(c) ==
    LET call == hostCalls[c]
    IN  /\ call.pc = "reg_destroy"
        /\ destroys' = [destroys EXCEPT ![call.old] = @ + 1]
        /\ loaded' = [loaded EXCEPT ![call.old] = {}]
        /\ srcConnected' = [srcConnected EXCEPT ![call.old] = FALSE]
        /\ initState' = [initState EXCEPT ![call.src] = "running"]
        /\ hostCalls' = [hostCalls EXCEPT ![c].pc = "reg_init"]
        /\ UNCHANGED <<objs, sources, srcTimer, srcAttempt, hostOps, regCallVars, notHostVars>>

\* initialize() resolved: the handshake succeeded and the tools are cached; the
\* source is set into the Map under its name.
HostInitResolves(c) ==
    LET call == hostCalls[c]
    IN  /\ call.pc = "reg_init"
        /\ srcConnected' = [srcConnected EXCEPT ![call.src] = TRUE]
        /\ loaded' = [loaded EXCEPT ![call.src] = objs[call.src].tools]
        /\ initState' = [initState EXCEPT ![call.src] = "done"]
        /\ sources' = MapSet(sources, objs[call.src].name, call.src)
        /\ hostCalls' = [hostCalls EXCEPT ![c] = NoHostCall]
        /\ UNCHANGED <<objs, destroys, srcTimer, srcAttempt, hostOps, regCallVars, notHostVars>>

\* initialize() rejected because the handshake failed: connect() has scheduled a
\* reconnect before it threw; registerSource logs and throws again, and its
\* caller logs a warning.
HostInitRejects(c) ==
    LET call == hostCalls[c]
    IN  /\ call.pc = "reg_init"
        /\ srcConnected' = [srcConnected EXCEPT ![call.src] = FALSE]
        /\ srcTimer' = ScheduleReconnect(srcTimer, call.src)
        /\ initState' = [initState EXCEPT ![call.src] = "failed"]
        /\ hostCalls' = [hostCalls EXCEPT ![c] = NoHostCall]
        /\ UNCHANGED <<objs, loaded, destroys, sources, srcAttempt, hostOps, regCallVars,
                       notHostVars>>

\* initialize() rejected because createTransport() threw: nothing is scheduled.
HostInitThrows(c) ==
    LET call == hostCalls[c]
    IN  /\ call.pc = "reg_init"
        /\ initState' = [initState EXCEPT ![call.src] = "failed"]
        /\ hostCalls' = [hostCalls EXCEPT ![c] = NoHostCall]
        /\ UNCHANGED <<objs, loaded, destroys, sources, srcConnected, srcTimer, srcAttempt,
                       hostOps, regCallVars, notHostVars>>

\* The reconnect timer of a source fires: the timer is cleared and connect() is
\* called.
HostTimerFires(s) ==
    /\ s \in 1..Len(objs)
    /\ srcTimer[s]
    /\ srcTimer' = [srcTimer EXCEPT ![s] = FALSE]
    /\ srcAttempt' = [srcAttempt EXCEPT ![s] = TRUE]
    /\ UNCHANGED <<objs, loaded, initState, destroys, sources, srcConnected, hostCalls,
                   hostOps, regCallVars, notHostVars>>

\* The connect() of a reconnect attempt succeeded.
HostReconnectResolves(s) ==
    /\ s \in 1..Len(objs)
    /\ srcAttempt[s]
    /\ srcAttempt' = [srcAttempt EXCEPT ![s] = FALSE]
    /\ srcConnected' = [srcConnected EXCEPT ![s] = TRUE]
    /\ loaded' = [loaded EXCEPT ![s] = objs[s].tools]
    /\ UNCHANGED <<objs, initState, destroys, sources, srcTimer, hostCalls, hostOps,
                   regCallVars, notHostVars>>

\* The connect() of a reconnect attempt failed: the next one is scheduled.
HostReconnectRejects(s) ==
    /\ s \in 1..Len(objs)
    /\ srcAttempt[s]
    /\ srcAttempt' = [srcAttempt EXCEPT ![s] = FALSE]
    /\ srcConnected' = [srcConnected EXCEPT ![s] = FALSE]
    /\ srcTimer' = ScheduleReconnect(srcTimer, s)
    /\ UNCHANGED <<objs, loaded, initState, destroys, sources, hostCalls, hostOps,
                   regCallVars, notHostVars>>

\* unregisterSource(name) up to its await: destroy() of the source held under
\* the name, which clears its reconnect timer at once.
HostUnregisterStart(c, name) ==
    LET old == MapGet(sources, name)
    IN  /\ HostFree(c)
        /\ hostOps < NHostOps
        /\ old # 0
        /\ hostOps' = hostOps + 1
        /\ hostCalls' = [hostCalls EXCEPT ![c] = [pc |-> "unreg_destroy", src |-> 0,
                                                 old |-> old]]
        /\ srcTimer' = [srcTimer EXCEPT ![old] = FALSE]
        /\ UNCHANGED <<objs, loaded, initState, destroys, sources, srcConnected, srcAttempt,
                       regCallVars, notHostVars>>

\* await source.destroy() is over; the name is deleted from the Map, whichever
\* source it holds by now.
HostUnregDestroyed(c) ==
    LET call == hostCalls[c]
    IN  /\ call.pc = "unreg_destroy"
        /\ destroys' = [destroys EXCEPT ![call.old] = @ + 1]
        /\ loaded' = [loaded EXCEPT ![call.old] = {}]
        /\ srcConnected' = [srcConnected EXCEPT ![call.old] = FALSE]
        /\ sources' = MapDelete(sources, objs[call.old].name)
        /\ hostCalls' = [hostCalls EXCEPT ![c] = NoHostCall]
        /\ UNCHANGED <<objs, initState, srcTimer, srcAttempt, hostOps, regCallVars,
                       notHostVars>>

NextHost ==
    \/ \E c \in 1..NHostCalls, name \in SourceNames : HostRegisterStart(c, name)
    \/ \E c \in 1..NHostCalls : HostDestroyOld(c)
    \/ \E c \in 1..NHostCalls : HostInitResolves(c)
    \/ \E c \in 1..NHostCalls : HostInitRejects(c)
    \/ \E c \in 1..NHostCalls : HostInitThrows(c)
    \/ \E s \in 1..NSources : HostTimerFires(s)
    \/ \E s \in 1..NSources : HostReconnectResolves(s)
    \/ \E s \in 1..NSources : HostReconnectRejects(s)
    \/ \E c \in 1..NHostCalls, name \in SourceNames : HostUnregisterStart(c, name)
    \/ \E c \in 1..NHostCalls : HostUnregDestroyed(c)

\* ------------------------------------------------------------ LongTermMemory
\* The keys the callers of set() and get() use.
LtmKeys == {"k1", "k2"}
\* The key column of a row stored by remember(): SQL NULL.
NoKey == "<NULL>"
\* The embedding column of a row stored without an embedding: SQL NULL.
NoEmbedding == [text |-> "<NULL>", call |-> 0]
\* What get() returns for a key that has no row.
Undefined == [type |-> "undefined", text |-> ""]
\* A JavaScript value: its type and, for a string, its characters, for any other
\* value its JSON text.
Str(t) == [type |-> "string", text |-> t]
\* The values handed to set(): strings, two of them JSON text, and an object.
LtmValues ==
    {Str("ab"), Str("123"), Str("true"), [type |-> "object", text |-> "{\"a\":1}"]}
\* The contents handed to remember().
LtmContents == {"Ab", "123"}
\* The queries and limits handed to search().
LtmQueries == {"a", "1_3"}
LtmLimits == {1, 2}

\* JSON.stringify(value).
JsonStringify(v) == IF v.type = "string" THEN "\"" \o v.text \o "\"" ELSE v.text
\* const content = typeof value === 'string' ? value : JSON.stringify(value)
Serialize(v) == IF v.type = "string" THEN v.text ELSE JsonStringify(v)
\* The texts of the model that JSON.parse accepts.
ParsesAsJson(t) == t \in {"123", "true", "{\"a\":1}", "\"ab\""}
\* JSON.parse(text), for a text it accepts.
JsonParse(t) ==
    CASE t = "123" -> [type |-> "number", text |-> "123"]
      [] t = "true" -> [type |-> "boolean", text |-> "true"]
      [] t = "\"ab\"" -> Str("ab")
      [] OTHER -> [type |-> "object", text |-> t]
\* try { return JSON.parse(row.content) } catch { return row.content }
ParseContent(content) == IF ParsesAsJson(content) THEN JsonParse(content) ELSE Str(content)

\* The characters of the texts of the model.
Chars(t) ==
    CASE t = "ab" -> <<"a", "b">>
      [] t = "Ab" -> <<"A", "b">>
      [] t = "123" -> <<"1", "2", "3">>
      [] t = "true" -> <<"t", "r", "u", "e">>
      [] t = "a" -> <<"a">>
      [] t = "1_3" -> <<"1", "_", "3">>
      [] OTHER -> <<"{", "\"", "a", "\"", ":", "1", "}">>
\* SQLite's LIKE compares ASCII letters without regard to case.
Fold(ch) == CASE ch = "A" -> "a" [] ch = "B" -> "b" [] OTHER -> ch
\* text LIKE pattern: % stands for any characters, _ for any one character.
RECURSIVE LikeMatch(_, _)
LikeMatch(p, t) ==
    IF p = <<>> THEN t = <<>>
    ELSE IF Head(p) = "%"
         THEN LikeMatch(Tail(p), t) \/ (t # <<>> /\ LikeMatch(p, Tail(t)))
         ELSE /\ t # <<>>
              /\ Head(p) = "_" \/ Fold(Head(p)) = Fold(Head(t))
              /\ LikeMatch(Tail(p), Tail(t))
\* content LIKE `%${query}%`
Like(content, query) == LikeMatch(<<"%">> \o Chars(query) \o <<"%">>, Chars(content))

\* The embedder the memory is given: a vector for each text.
Embed(t) ==
    CASE t = "ab" -> <<2, 0>>
      [] t = "Ab" -> <<1, 1>>
      [] t = "123" -> <<0, 1>>
      [] t = "true" -> <<0, 0>>
      [] t = "a" -> <<1, 0>>
      [] t = "1_3" -> <<0, 3>>
      [] OTHER -> <<1, 2>>
Dot(a, b) == a[1] * b[1] + a[2] * b[2]
\* cosineSimilarity(a, b) as a fraction of squares: the vectors of the model have
\* no negative component, so the order of the squares is the order of the
\* cosines; 0 when a norm is 0.
CosNum(a, b) == IF Dot(a, a) * Dot(b, b) = 0 THEN 0 ELSE Dot(a, b) * Dot(a, b)
CosDen(a, b) == IF Dot(a, a) * Dot(b, b) = 0 THEN 1 ELSE Dot(a, a) * Dot(b, b)
\* cosineSimilarity(q, a) > cosineSimilarity(q, b)
MoreSimilar(q, a, b) == CosNum(q, a) * CosDen(q, b) > CosNum(q, b) * CosDen(q, a)

\* The sequences of n different rows of a set.
Picks(rows, n) ==
    {s \in [1..n -> rows] : \A i, j \in 1..n : i # j => s[i] # s[j]}
\* How many rows a query with LIMIT limit returns out of a set of rows.
Limited(rows, limit) == Min(limit, Cardinality(rows))
\* SELECT ... WHERE content LIKE ? ORDER BY updated_at DESC LIMIT ?: the results
\* the query may give. updated_at holds whole seconds, and the order of rows that
\* share one is not fixed by the query.
LikeSearch(query, limit) ==
    LET matching == {r \in memories : Like(r.content, query)}
    IN  {s \in Picks(matching, Limited(matching, limit)) :
            /\ \A i, j \in 1..Len(s) : i < j => s[i].updatedAt >= s[j].updatedAt
            /\ \A r \in matching :
                  (\A i \in 1..Len(s) : s[i] # r) =>
                      \A i \in 1..Len(s) : s[i].updatedAt >= r.updatedAt}
\* vectorSearch(), given the query's embedding: the rows that have an embedding,
\* by descending similarity, the first limit of them.
VectorSearch(query, limit) ==
    LET q == Embed(query)
        rows == {r \in memories : r.embedding # NoEmbedding}
        vec(r) == Embed(r.embedding.text)
    IN  {s \in Picks(rows, Limited(rows, limit)) :
            /\ \A i, j \in 1..Len(s) : i < j => ~MoreSimilar(q, vec(s[j]), vec(s[i]))
            /\ \A r \in rows :
                  (\A i \in 1..Len(s) : s[i] # r) =>
                      \A i \in 1..Len(s) : ~MoreSimilar(q, vec(r), vec(s[i]))}
\* rows.map(row => ({id, content, metadata, createdAt}))
Entries(s) == [i \in 1..Len(s) |-> [id |-> s[i].id, content |-> s[i].content]]

\* A call slot in which no call is pending.
NoCall == [pc |-> "idle", op |-> "", key |-> NoKey, value |-> Undefined, content |-> "",
           limit |-> 0, no |-> 0]
\* No result.
NoGot == [no |-> 0, key |-> NoKey, value |-> Undefined]
NoFound == [no |-> 0, query |-> "", limit |-> 0, failed |-> FALSE, entries |-> <<>>]

\* Slot c is the first one in which no call is pending.
FreeSlot(c) ==
    /\ ltmCalls[c].pc = "idle"
    /\ \A d \in 1..(c - 1) : ltmCalls[d].pc # "idle"

LtmIdle ==
    /\ embeddingFn = "none"
    /\ memories = {}
    /\ ltmCalls = [c \in 1..NLtmCalls |-> NoCall]
    /\ ltmClock = 0
    /\ ltmOps = 0
    /\ ltmWrites = 0
    /\ ltmGot = NoGot
    /\ ltmFound = NoFound
    /\ ltmSetArgs = {}

\* new LongTermMemory({db, logger, embeddingFn}); initialize() on an empty database.
LtmInit ==
    /\ embeddingFn \in {"none", "present"}
    /\ memories = {}
    /\ ltmCalls = [c \in 1..NLtmCalls |-> NoCall]
    /\ ltmClock = 0
    /\ ltmOps = 0
    /\ ltmWrites = 0
    /\ ltmGot = NoGot
    /\ ltmFound = NoFound
    /\ ltmSetArgs = {}

\* The rest of set() after the embedding: SELECT id ... WHERE key = ?, then UPDATE
\* the rows of the key or INSERT a row with a new id.
Upsert(call, embedding) ==
    LET written == [id |-> 0, key |-> call.key, content |-> call.content, embedding |-> embedding,
                    updatedAt |-> ltmClock, seq |-> ltmWrites + 1, call |-> call.no,
                    value |-> call.value]
    IN  IF \E r \in memories : r.key = call.key
        THEN {IF r.key = call.key THEN [written EXCEPT !.id = r.id] ELSE r : r \in memories}
        ELSE memories \cup {[written EXCEPT !.id = ltmWrites + 1]}
\* The INSERT of remember(): a row with a new id and no key.
Insert(call, embedding) ==
    memories \cup {[id |-> ltmWrites + 1, key |-> NoKey, content |-> call.content,
                    embedding |-> embedding, updatedAt |-> ltmClock, seq |-> ltmWrites + 1,
                    call |-> call.no, value |-> Str(call.content)]}
\* The embedding a call stores when the embedder answers.
EmbeddingOf(call) == [text |-> call.content, call |-> call.no]

\* CURRENT_TIMESTAMP moves to the next second.
LtmTick ==
    /\ ltmClock < MaxLtmClock
    /\ ltmClock' = ltmClock + 1
    /\ UNCHANGED <<embeddingFn, memories, ltmCalls, ltmOps, ltmWrites, ltmGot, ltmFound,
                   ltmSetArgs>>
    /\ UNCHANGED notLtmVars

\* get(key)
LtmGet(key) ==
    /\ ltmOps < NLtmOps
    /\ ltmOps' = ltmOps + 1
    /\ ltmGot' = [no |-> ltmOps + 1, key |-> key,
                  value |-> IF \E r \in memories : r.key = key
                            THEN ParseContent((CHOOSE r \in memories : r.key = key).content)
                            ELSE Undefined]
    /\ UNCHANGED <<embeddingFn, memories, ltmCalls, ltmClock, ltmWrites, ltmFound, ltmSetArgs>>
    /\ UNCHANGED notLtmVars

\* set(key, value): to its end without an embedder, up to the await with one.
LtmSet(c, key, value) ==
    LET call == [pc |-> "embedding", op |-> "set", key |-> key, value |-> value,
                 content |-> Serialize(value), limit |-> 0, no |-> ltmOps + 1]
    IN  /\ ltmOps < NLtmOps
        /\ FreeSlot(c)
        /\ ltmOps' = ltmOps + 1
        /\ ltmSetArgs' = ltmSetArgs \cup {[key |-> key, value |-> value]}
        /\ IF embeddingFn = "none"
           THEN /\ memories' = Upsert(call, NoEmbedding)
                /\ ltmWrites' = ltmWrites + 1
                /\ UNCHANGED ltmCalls
           ELSE /\ ltmCalls' = [ltmCalls EXCEPT ![c] = call]
                /\ UNCHANGED <<memories, ltmWrites>>
        /\ UNCHANGED <<embeddingFn, ltmClock, ltmGot, ltmFound>>
        /\ UNCHANGED notLtmVars

\* remember(content): to its end without an embedder, up to the await with one.
LtmRemember(c, content) ==
    LET call == [pc |-> "embedding", op |-> "remember", key |-> NoKey,
                 value |-> Str(content), content |-> content, limit |-> 0,
                 no |-> ltmOps + 1]
    IN  /\ ltmOps < NLtmOps
        /\ FreeSlot(c)
        /\ ltmOps' = ltmOps + 1
        /\ IF embeddingFn = "none"
           THEN /\ memories' = Insert(call, NoEmbedding)
                /\ ltmWrites' = ltmWrites + 1
                /\ UNCHANGED ltmCalls
           ELSE /\ ltmCalls' = [ltmCalls EXCEPT ![c] = call]
                /\ UNCHANGED <<memories, ltmWrites>>
        /\ UNCHANGED <<embeddingFn, ltmClock, ltmGot, ltmFound, ltmSetArgs>>
        /\ UNCHANGED notLtmVars

\* forget(id)
LtmForget(id) ==
    /\ ltmOps < NLtmOps
    /\ \E r \in memories : r.id = id
    /\ ltmOps' = ltmOps + 1
    /\ memories' = {r \in memories : r.id # id}
    /\ UNCHANGED <<embeddingFn, ltmCalls, ltmClock, ltmWrites, ltmGot, ltmFound, ltmSetArgs>>
    /\ UNCHANGED notLtmVars

\* search(query, limit): likeSearch() without an embedder, up to the await of
\* vectorSearch() with one.
LtmSearch(c, query, limit) ==
    LET call == [pc |-> "embedding", op |-> "search", key |-> NoKey, value |-> Undefined,
                 content |-> query, limit |-> limit, no |-> ltmOps + 1]
    IN  /\ ltmOps < NLtmOps
        /\ FreeSlot(c)
        /\ ltmOps' = ltmOps + 1
        /\ IF embeddingFn = "none"
           THEN /\ \E s \in LikeSearch(query, limit) :
                      ltmFound' = [no |-> ltmOps + 1, query |-> query, limit |-> limit,
                                   failed |-> FALSE, entries |-> Entries(s)]
                /\ UNCHANGED ltmCalls
           ELSE /\ ltmCalls' = [ltmCalls EXCEPT ![c] = call]
                /\ UNCHANGED ltmFound
        /\ UNCHANGED <<embeddingFn, memories, ltmClock, ltmWrites, ltmGot, ltmSetArgs>>
        /\ UNCHANGED notLtmVars

\* The embedder answers the call of slot c, which goes on to its end.
LtmEmbedResolves(c) ==
    LET call == ltmCalls[c]
    IN  /\ call.pc = "embedding"
        /\ ltmCalls' = [ltmCalls EXCEPT ![c] = NoCall]
        /\ IF call.op = "search"
           THEN /\ \E s \in VectorSearch(call.content, call.limit) :
                      ltmFound' = [no |-> call.no, query |-> call.content,
                                   limit |-> call.limit, failed |-> FALSE,
                                   entries |-> Entries(s)]
                /\ UNCHANGED <<memories, ltmWrites>>
           ELSE /\ memories' = IF call.op = "set" THEN Upsert(call, EmbeddingOf(call))
                                                  ELSE Insert(call, EmbeddingOf(call))
                /\ ltmWrites' = ltmWrites + 1
                /\ UNCHANGED ltmFound
        /\ UNCHANGED <<embeddingFn, ltmClock, ltmOps, ltmGot, ltmSetArgs>>
        /\ UNCHANGED notLtmVars

\* The embedder fails the call of slot c: the catch logs a warning and the call
\* goes on without an embedding, a search with likeSearch().
LtmEmbedRejects(c) ==
    LET call == ltmCalls[c]
    IN  /\ call.pc = "embedding"
        /\ ltmCalls' = [ltmCalls EXCEPT ![c] = NoCall]
        /\ IF call.op = "search"
           THEN /\ \E s \in LikeSearch(call.content, call.limit) :
                      ltmFound' = [no |-> call.no, query |-> call.content,
                                   limit |-> call.limit, failed |-> TRUE,
                                   entries |-> Entries(s)]
                /\ UNCHANGED <<memories, ltmWrites>>
           ELSE /\ memories' = IF call.op = "set" THEN Upsert(call, NoEmbedding)
                                                  ELSE Insert(call, NoEmbedding)
                /\ ltmWrites' = ltmWrites + 1
                /\ UNCHANGED ltmFound
        /\ UNCHANGED <<embeddingFn, ltmClock, ltmOps, ltmGot, ltmSetArgs>>
        /\ UNCHANGED notLtmVars

NextLtm ==
    \/ LtmTick
    \/ \E key \in LtmKeys : LtmGet(key)
    \/ \E c \in 1..NLtmCalls, key \in LtmKeys, value \in LtmValues : LtmSet(c, key, value)
    \/ \E c \in 1..NLtmCalls, content \in LtmContents : LtmRemember(c, content)
    \/ \E id \in 1..NLtmOps : LtmForget(id)
    \/ \E c \in 1..NLtmCalls, query \in LtmQueries, limit \in LtmLimits :
          LtmSearch(c, query, limit)
    \/ \E c \in 1..NLtmCalls : LtmEmbedResolves(c)
    \/ \E c \in 1..NLtmCalls : LtmEmbedRejects(c)

\* The components added to the model last take part in no call.
ExtIdle == LtmIdle /\ ExecIdle /\ HostIdle /\ ChatIdle

NextAgent ==
    \/ Setup \/ LoopHead \/ LoopExit
    \/ StreamContent \/ StreamToolCall \/ StreamError \/ StreamEnd
    \/ AfterAnswer \/ Finish
    \/ ToolsDone \/ ParseArguments \/ PlanThought \/ PlanPlan \/ MemoryTool
    \/ ToolAction \/ ExecSettle \/ ExecTimeout \/ PushReply

\* The components that take part in no call.
LibIdle == McpIdle /\ CtxIdle /\ MemIdle /\ ExtIdle

\* A run consumed by Agent.execute(); no streaming request.
InitExecute ==
    /\ InitAgent("execute")
    /\ SrvIdle
    /\ DagIdle
    /\ RegIdle
    /\ LibIdle

\* No agent run: the state of an Agent that was constructed only.
AgentIdle ==
    /\ mode = "none"
    /\ maxIterations = MaxIterations
    /\ longTermMemory = FALSE
    /\ pc = "idle"
    /\ iteration = 0
    /\ messages = <<>>
    /\ events = <<>>
    /\ fullContent = <<>>
    /\ toolCalls = <<>>
    /\ tcIdx = 0
    /\ resultStr = ""
    /\ llmStreamCalls = 0
    /\ llmChatCalls = 0
    /\ thrown = ""
    /\ demand = FALSE
    /\ aborted = FALSE
    /\ abortedAt = -1
    /\ orphans = {}
    /\ lateSettled = {}
    /\ nToolCalls = 0
    /\ nChunks = 0

\* A task graph and one DAGExecutor.execute() run, fully consumed.
InitDag ==
    /\ AgentIdle
    /\ SrvIdle
    /\ RegIdle
    /\ LibIdle
    /\ DagInit

\* A run consumed by the streaming endpoint.
InitStream ==
    /\ InitAgent("stream")
    /\ SrvInit
    /\ DagIdle
    /\ RegIdle
    /\ LibIdle

\* Agent.execute() consuming run(): it pulls every step.
SpecAgent == InitExecute /\ [][NextAgent]_vars

\* The same, with the handlers that outlive their timeout going on.
SpecTimeout == InitExecute /\ [][NextAgent \/ HandlerLateSettle]_vars

\* The same, with a caller that may raise the abort signal.
SpecCancel == InitExecute /\ [][NextAgent \/ Cancel \/ StreamAbort]_vars

\* The streaming endpoint consuming run(), with a client that may go away.
SpecStream == InitStream /\ [][NextAgent \/ StreamAbort \/ NextSrv]_vars

\* A remote source, for every kind of config.
InitMcp ==
    /\ AgentIdle
    /\ SrvIdle
    /\ DagIdle
    /\ RegIdle
    /\ CtxIdle
    /\ MemIdle
    /\ ExtIdle
    /\ \E cfg \in McpConfigs : McpNew(cfg)

SpecMcp == InitMcp /\ [][NextMcp]_vars

\* A remote source and the answers the server gives to callTool.
InitMcpCall ==
    /\ AgentIdle
    /\ SrvIdle
    /\ DagIdle
    /\ RegIdle
    /\ CtxIdle
    /\ MemIdle
    /\ LtmIdle
    /\ HostIdle
    /\ ChatIdle
    /\ \E cfg \in McpConfigs : McpNew(cfg)
    /\ callToolResponse \in McpResponses
    /\ mcpResult = NoResult

SpecMcpCall == InitMcpCall /\ [][NextMcp]_vars

\* The same, with timers that fire and a server that answers or refuses.
SpecMcpFair ==
    /\ InitMcp
    /\ [][NextMcp]_vars
    /\ WF_vars(McpTimerFires)
    /\ WF_vars(McpConnectResolves \/ McpConnectRejects)
    /\ WF_vars(McpListToolsOk \/ McpListToolsFails)

\* One trimMessages() call, for every ContextManager and arguments drawn.
InitCtx ==
    /\ AgentIdle
    /\ SrvIdle
    /\ DagIdle
    /\ RegIdle
    /\ McpIdle
    /\ MemIdle
    /\ ExtIdle
    /\ CtxInit

SpecCtx == InitCtx /\ [][NextCtx]_vars

\* A memory manager and the calls made on it.
InitMem ==
    /\ AgentIdle
    /\ SrvIdle
    /\ DagIdle
    /\ RegIdle
    /\ McpIdle
    /\ CtxIdle
    /\ ExtIdle
    /\ MemInit

SpecMem == InitMem /\ [][NextMem]_vars

\* A memory manager of any limit, and the calls made on it.
InitMemAny ==
    /\ AgentIdle
    /\ SrvIdle
    /\ DagIdle
    /\ RegIdle
    /\ McpIdle
    /\ CtxIdle
    /\ ExtIdle
    /\ MemAnyInit

SpecMemAny == InitMemAny /\ [][NextMem]_vars

\* A memory manager that is full, and the calls made on it.
InitMemFull ==
    /\ AgentIdle
    /\ SrvIdle
    /\ DagIdle
    /\ RegIdle
    /\ McpIdle
    /\ CtxIdle
    /\ ExtIdle
    /\ MemFullInit

SpecMemFull == InitMemFull /\ [][NextMem]_vars

\* A long-term memory on an empty database, with and without an embedder, and
\* the calls made on it.
InitLtm ==
    /\ AgentIdle
    /\ SrvIdle
    /\ DagIdle
    /\ RegIdle
    /\ McpIdle
    /\ CtxIdle
    /\ MemIdle
    /\ ExecIdle
    /\ HostIdle
    /\ ChatIdle
    /\ LtmInit

SpecLtm == InitLtm /\ [][NextLtm]_vars

\* A host whose registry is empty, and the registry calls it makes.
InitHost ==
    /\ AgentIdle
    /\ SrvIdle
    /\ DagIdle
    /\ RegIdle
    /\ LibIdle

SpecHost == InitHost /\ [][NextHost]_vars

\* One chatStream() call of the OpenAI adapter, for every provider stream drawn.
InitChat ==
    /\ AgentIdle
    /\ SrvIdle
    /\ DagIdle
    /\ RegIdle
    /\ McpIdle
    /\ CtxIdle
    /\ MemIdle
    /\ LtmIdle
    /\ ExecIdle
    /\ HostIdle
    /\ ChatInit

SpecChat == InitChat /\ [][NextChat]_vars

\* A registry whose calls interleave: one registerSource or unregisterSource call
\* and one lookup at a time.
InitRegistry ==
    /\ AgentIdle
    /\ SrvIdle
    /\ DagIdle
    /\ RegIdle
    /\ LibIdle

SpecRegistry == InitRegistry /\ [][NextRegistry]_vars

\* The same registry with sources whose getTools() may raise.
SpecRegistryFaulty == InitRegistry /\ [][NextRegistry \/ LookupGetToolsFails]_vars

\* A tasks table and one getReadyTasks call.
InitRepo ==
    /\ AgentIdle
    /\ SrvIdle
    /\ RegIdle
    /\ LibIdle
    /\ RepoInit

SpecRepo == InitRepo /\ [][NextRepo]_vars

\* One DAGExecutor.execute() run over a task graph.
SpecDag == InitDag /\ [][NextDag]_vars

\* Two execute() runs on the same session; their steps interleave.
InitDag2 ==
    /\ AgentIdle
    /\ SrvIdle
    /\ RegIdle
    /\ LibIdle
    /\ \E g \in Graphs \cup {Diamond} :
          DagStart(g, AllPending(g), AnyDescriptions(g), {1, 2})

SpecDag2 == InitDag2 /\ [][NextDag]_vars

\* One run, then a later one, over graphs with cycles, unknown ids, a failed task
\* or more than MAX_ROUNDS levels.
InitDagAny ==
    /\ AgentIdle
    /\ SrvIdle
    /\ RegIdle
    /\ LibIdle
    /\ DagAnyInit

NextDagAny == NextDag \/ DagStartLater

SpecDagAny == InitDagAny /\ [][NextDagAny]_vars

\* The same, with every run fully consumed and every dispatch settling.
SpecDagAnyFair == InitDagAny /\ [][NextDagAny]_vars /\ WF_vars(NextDagAny)

\* ------------------------------------------------------------ agent claims
IsAssistant(i) == messages[i].role = "assistant"

\* The messages after assistant message i, up to the next assistant message.
Following(i) ==
    {j \in (i+1)..Len(messages) : \A l \in (i+1)..j : ~IsAssistant(l)}

\* C1: every assistant message with k >= 1 tool calls is followed by tool replies
\* only, the j-th carrying the id of the j-th call, never more than k of them, and
\* by exactly k of them once the next assistant message is appended or the run has
\* returned.
C1_MessageCoherence ==
    \A i \in 1..Len(messages) :
        (IsAssistant(i) /\ Len(messages[i].toolCalls) >= 1) =>
            LET k == Len(messages[i].toolCalls) IN
            /\ Cardinality(Following(i)) <= k
            /\ \A j \in Following(i) :
                  /\ messages[j].role = "tool"
                  /\ messages[j].toolCallId = messages[i].toolCalls[j - i].id
            /\ ((\E l \in (i+1)..Len(messages) : IsAssistant(l)) \/ pc = "done")
                  => Cardinality(Following(i)) = k

\* C1 witness: a turn with a built-in call and a registry call that failed, both
\* answered, and the next assistant message appended.
C1_Witness ==
    \E i \in 1..Len(messages) :
        /\ IsAssistant(i)
        /\ Len(messages[i].toolCalls) = 2
        /\ \E j \in 1..2 : messages[i].toolCalls[j].name = "plan_task"
        /\ \E j \in Following(i) : messages[j].tag = "Error: failed"
        /\ \E l \in (i+1)..Len(messages) : IsAssistant(l)

AnswerSteps == {i \in 1..Len(events) : events[i].type = "answer"}

\* The responses of this run: the assistant messages that carry the "" tag.
Responses == {i \in 1..Len(messages) : IsAssistant(i) /\ messages[i].tag = ""}

\* C2: a run that returns (not cancelled, no model failure) has yielded exactly one
\* answer, as its last step; a response without tool calls makes that answer carry
\* its text, and the step-limit answer needs maxIterations responses with tool calls.
C2_OneAnswerLast ==
    (pc = "done" /\ ~aborted) =>
        /\ Cardinality(AnswerSteps) = 1
        /\ events[Len(events)].type = "answer"
        /\ \A i \in Responses : messages[i].toolCalls = <<>> =>
               /\ events[Len(events)].tag = ""
               /\ events[Len(events)].text = messages[i].text
        /\ (events[Len(events)].tag = "limit") =>
               /\ Cardinality(Responses) = maxIterations
               /\ \A i \in Responses : messages[i].toolCalls # <<>>

\* C3: no failure on the tool side makes run() end with an exception.
C3_ToolFailuresRecovered == thrown # "tool"

\* C4: at most maxIterations chatStream calls, at most one chat call.
C4_IterationCap ==
    /\ llmStreamCalls <= maxIterations
    /\ llmChatCalls <= 1
    /\ llmStreamCalls + llmChatCalls <= maxIterations + 1

\* C4 witness: the cap is met: every iteration streamed and the summary was made.
C4_Witness ==
    /\ maxIterations >= 2
    /\ llmStreamCalls = maxIterations
    /\ llmChatCalls = 1
    /\ pc = "done"

\* C5: a handler whose timeout observation was yielded does nothing afterwards.
C5_TimedOutHandlerStops == lateSettled = {}

\* C6: once the abort signal is raised the generator yields no further step.
C6_NoStepAfterCancel == aborted => Len(events) = abortedAt

\* C7: a run whose client went away before the answer step saves nothing.
C7_CancelledRunSavesNothing ==
    (/\ disconnectedAt >= 0
     /\ \A i \in 1..disconnectedAt : events[i].type # "answer")
        => saved = <<>>

ToolStepTypes == {"thought", "plan", "action", "observation"}

\* C8: steps come turn by turn; within a turn the steps of the tool calls follow
\* the order of the calls; an action is directly followed by the observation of
\* its call; a plan directly follows the thought of its call; no tool step of a
\* turn comes after a content step of a later turn.
C8_StepOrder ==
    /\ \A i \in 1..Len(events) :
          events[i].type \in ToolStepTypes =>
              \A j \in (i+1)..Len(events) :
                 /\ events[j].type \in ToolStepTypes
                       => \/ events[i].iter < events[j].iter
                          \/ events[i].iter = events[j].iter /\ events[i].idx <= events[j].idx
                 /\ events[j].type = "content" => events[i].iter < events[j].iter
    /\ LET R == Responses IN
       \A i \in 1..Len(events) :
          events[i].type \in ToolStepTypes =>
              \E m \in R :
                 /\ Cardinality({l \in R : l <= m}) = events[i].iter
                 /\ events[i].idx \in 1..Len(messages[m].toolCalls)
                 /\ messages[m].toolCalls[events[i].idx].id = events[i].call
    /\ \A i \in 1..Len(events) :
          events[i].type = "content" =>
              \A j \in (i+1)..Len(events) :
                 events[j].type \in ToolStepTypes => events[i].iter <= events[j].iter
    /\ \A i \in 1..Len(events) :
          (events[i].type = "action" /\ i < Len(events))
              => /\ events[i+1].type = "observation"
                 /\ events[i+1].call = events[i].call
    /\ \A i \in 1..Len(events) :
          (events[i].type = "thought" /\ i < Len(events))
              => /\ events[i+1].type = "plan"
                 /\ events[i+1].call = events[i].call
    /\ \A i \in 1..Len(events) :
          events[i].type = "plan"
              => /\ i > 1
                 /\ events[i-1].type = "thought"
                 /\ events[i-1].call = events[i].call

\* C8 witness: a turn with a registry call and a plan_task call, then the content
\* of the next turn.
C8_Witness ==
    \E i \in 1..Len(events) :
        /\ events[i].type = "content"
        /\ \E a, t \in 1..(i-1) :
              /\ events[a].type = "action"
              /\ events[t].type = "thought"
              /\ events[a].iter = events[t].iter
              /\ events[a].iter < events[i].iter

\* -------------------------------------------------------------- DAG claims
\* C9: within one run, a task started in a later round is running only when every
\* task the run started in an earlier round has a terminal status.
C9_Barrier ==
    \A e \in execs : \A t, u \in Tasks :
        (startedRound[e][t] >= 1 /\ startedRound[e][u] > startedRound[e][t])
            => status[t] \in Terminal

\* C9 witness: two tasks dispatched in round 1, a third one running in round 2.
C9_Witness ==
    \E t, u, v \in Tasks :
        /\ t # u
        /\ startedRound[1][t] = 1 /\ startedRound[1][u] = 1
        /\ startedRound[1][v] = 2 /\ status[v] = "running"

\* C10: a task whose dispatch raised is set to failed with the error as result and
\* a task_failed event, and is never recorded as completed.
C10_RaisedTaskFails ==
    \A t \in raised :
        /\ status[t] # "completed"
        /\ status[t] \in Terminal =>
              /\ status[t] = "failed"
              /\ \E i \in 1..Len(dagEvents) :
                    dagEvents[i].type = "task_failed" /\ dagEvents[i].taskId = t

\* C11: getReadyTasks(session) returns a task iff it is a row of the session, its
\* status is pending and each of its dependencies is the id of a completed row of
\* the same session.
C11_Readiness ==
    queried # "" =>
        \A t \in Tasks :
            (\E i \in 1..Len(answer) : answer[i] = t)
            <=> /\ session[t] = queried
                /\ status[t] = "pending"
                /\ \A d \in dependencies[t] :
                      d \in Tasks /\ session[d] = queried /\ status[d] = "completed"

\* C11 witness: a pending task of the queried session is held back by a completed
\* dependency that belongs to the other session.
C11_Witness ==
    /\ queried # ""
    /\ \E t \in Tasks :
          /\ session[t] = queried /\ status[t] = "pending"
          /\ \A i \in 1..Len(answer) : answer[i] # t
          /\ \E d \in dependencies[t] :
                d \in Tasks /\ status[d] = "completed" /\ session[d] # queried

StatusSteps == {<<"pending", "running">>, <<"running", "completed">>, <<"running", "failed">>}

\* C12: with one or two interleaved runs, a task's status only moves pending ->
\* running -> completed | failed, and a run sets a task to running (dispatches it)
\* only when the task is pending, so no task is dispatched twice.
C12_StatusHistory ==
    [][\A t \in Tasks :
          /\ status'[t] # status[t] => <<status[t], status'[t]>> \in StatusSteps
          /\ \A e \in execs :
                startedRound'[e][t] # startedRound[e][t]
                    => status[t] = "pending" /\ status'[t] = "running"]_vars

\* C12 witness: both runs have tasks in flight at the same time.
C12_Witness ==
    /\ dagPc[1] = "await" /\ dagPc[2] = "await"
    /\ \E t, u \in Tasks :
          /\ startedRound[1][t] >= 1 /\ startedRound[2][u] >= 1
          /\ status[t] = "running" /\ status[u] = "running"

\* Length of the longest dependency chain that ends in task t (acyclic graphs).
RECURSIVE Depth(_)
Depth(t) ==
    IF dependencies[t] = {} THEN 1
    ELSE LET ds == {Depth(d) : d \in dependencies[t]}
         IN 1 + CHOOSE x \in ds : \A y \in ds : y <= x

EventsOf(t) == {i \in 1..Len(dagEvents) : dagEvents[i].taskId = t}

RECURSIVE Blocked(_)
Blocked(X) ==
    LET Y == X \cup {t \in Tasks : \E d \in dependencies[t] \cap Tasks :
                                      status[d] = "failed" \/ d \in X}
    IN IF Y = X THEN X ELSE Blocked(Y)

\* C14: a task that depends, directly or transitively, on a failed task is never
\* set to running by the run or a later run, and no event is emitted for it.
C14_BlockedStaysPending ==
    \A t \in Blocked({}) :
        /\ status[t] \notin {"running", "completed"}
        /\ \A e \in ExecIds : startedRound[e][t] = 0
        /\ EventsOf(t) = {}

\* C14 witness: both runs are over, a task two steps behind a failed task is still
\* pending while another task has been completed.
C14_Witness ==
    /\ dagPc[1] = "done" /\ dagPc[2] = "done"
    /\ \E f, t, u \in Tasks :
          /\ status[f] = "failed" /\ f \in dependencies[t] /\ t \in dependencies[u]
          /\ status[t] = "pending" /\ status[u] = "pending"
    /\ \E v \in Tasks : status[v] = "completed"

\* C15: a fully consumed run ends, after at most MAX_ROUNDS rounds, and when it
\* stops because no task was listed, no task of the session is ready.
C15_RunTerminates ==
    /\ [](\A e \in ExecIds : round[e] <= MAX_ROUNDS)
    /\ [][\A e \in ExecIds : (dagPc[e] # "done" /\ dagPc'[e] = "done")
                                 => GetReadyTasks(SessionId)' = <<>>]_vars
    /\ <>(dagPc[1] \in {"done", "maxed"})

\* C15 witness: the run over the chain of MAX_ROUNDS + 1 tasks has stopped at the
\* bound, with the last task still pending.
C15_Witness ==
    /\ dagPc[1] = "maxed"
    /\ round[1] = MAX_ROUNDS
    /\ \E t \in Tasks : status[t] = "pending" /\ dependencies[t] # {}
                          /\ \A d \in dependencies[t] : d \in Tasks /\ status[d] = "completed"

\* ---------------------------------------------------------- registry claims
\* C16: executeAction fails with tool-not-found exactly when it met no source that
\* advertises the tool; otherwise it invokes one source's execute, once, and
\* returns its result or fails with the error that execute raised.
C16_ExecuteActionRouting ==
    (lkPc = "done" /\ lkKind = "exec") =>
        /\ (lkResult = "notfound") <=> (lkExecs = <<>>)
        /\ Len(lkExecs) <= 1
        /\ lkRaised # {} => lkResult = "handler_error"

\* The installed sources that advertise the tool now.
Advertisers(tool) == {s \in Range(sources) : tool \in loaded[s]}

\* C17: getToolDefinitions returns no two descriptors of the same name, and a tool
\* name advertised by several sources is routed to the most recently registered.
C17_ToolNamesUnique ==
    /\ (lkPc = "done" /\ lkKind = "defs") =>
          \A i, j \in 1..Len(lkTools) : i # j => lkTools[i].name # lkTools[j].name
    /\ (lkKind = "exec" /\ lkExecs # <<>> /\ mutPc = "idle" /\ Advertisers(lkTool) # {}) =>
          \A s \in Advertisers(lkTool) : s <= lkExecs[1]

\* C18: a source whose initialize() failed is not installed and never met by a
\* lookup, the call ends with the error, and no two installed sources share a name.
C18_FailedInitNotInstalled ==
    /\ \A s \in 1..Len(objs) :
          initState[s] = "failed" =>
              /\ s \notin Range(sources)
              /\ s \notin Range(lkExecs)
              /\ \A r \in lkSeen : r.src # s
              /\ \A i \in 1..Len(lkTools) : lkTools[i].src # s
    /\ (mutPc = "idle" /\ mutSrc # 0) =>
          ((mutResult = "error") <=> (initState[mutSrc] = "failed"))
    /\ \A i, j \in 1..Len(sources) :
          i # j => objs[sources[i]].name # objs[sources[j]].name

\* C18 witness: a registerSource call has failed on initialize() while a source
\* of the same name was installed, and a lookup has run to its end since.
C18_Witness ==
    /\ mutPc = "idle" /\ mutResult = "error"
    /\ MapGet(sources, objs[mutSrc].name) # 0
    /\ lkPc = "done" /\ lkSeen # {}

\* C19: once a source of the same name has taken an installed source's place, the
\* old source is out of the Map and its destroy() has run exactly once.
C19_ReplacedDestroyedOnce ==
    \A old \in wasInstalled : \A new \in Range(sources) :
        (objs[old].name = objs[new].name /\ old < new) =>
            /\ old \notin Range(sources)
            /\ destroys[old] = 1

\* C20: a lookup that interleaves with registerSource only meets sources whose
\* initialize() is over, gets none or all of a source's descriptors, and finds a
\* tool of a source that stays installed.
C20_AtomicInstall ==
    /\ \A r \in lkSeen : r.init = "done"
    /\ \A s \in 1..Len(objs) :
          {lkTools[i].name : i \in {k \in 1..Len(lkTools) : lkTools[k].src = s}}
              \in {{}, objs[s].tools}
    /\ (lkPc = "done" /\ lkKind = "exec" /\ lkRaised = {}
          /\ \E s \in Range(sources) \cap lkAtStart : lkTool \in loaded[s])
         => lkResult = "result"

\* C20 witness: executeAction has found the tool of source b while registerSource
\* of another name is half way through initialize().
C20_Witness ==
    /\ lkPc = "done" /\ lkKind = "exec" /\ lkResult = "result"
    /\ mutPc = "reg_init"
    /\ loaded[mutSrc] # {} /\ loaded[mutSrc] # objs[mutSrc].tools
    /\ objs[lkExecs[1]].name # objs[mutSrc].name

\* The descriptors of the sources of the Map, in order, but for the sources in failed.
RECURSIVE DescriptorsExcept(_, _)
DescriptorsExcept(map, failed) ==
    IF map = <<>> THEN <<>>
    ELSE (IF Head(map) \in failed THEN <<>> ELSE Descriptors(Head(map)))
         \o DescriptorsExcept(Tail(map), failed)

\* The Map and its sources are as they were when the lookup was called, and the
\* lookup has met no other source.
Undisturbed ==
    /\ Range(sources) = lkAtStart
    /\ \A s \in lkAtStart : destroys[s] = 0
    /\ \A r \in lkSeen : r.src \in lkAtStart
    /\ lkFailed \subseteq lkAtStart

\* C21: when getTools() of a source raises, getToolDefinitions still returns a
\* list, made of the tool lists of the other installed sources and nothing of the
\* failing one, which stays installed.
C21_GetToolsFailureIsolated ==
    (lkPc = "done" /\ lkKind = "defs" /\ Undisturbed) =>
        /\ lkResult = "list"
        /\ lkTools = DescriptorsExcept(sources, lkFailed)
        /\ lkFailed \subseteq Range(sources)

\* C21 witness: a listing is over in which one source raised and another one
\* contributed its tools.
C21_Witness ==
    /\ lkPc = "done" /\ lkKind = "defs" /\ Undisturbed
    /\ lkFailed # {}
    /\ lkTools # <<>>

\* ------------------------------------------------------ remote source claims
\* C22: once destroy() of a remote source has returned, no connection attempt
\* starts, no reconnect is scheduled, the source is not connected and getTools()
\* is empty, whatever the source was doing when destroy() was called.
C22_DestroyIsFinal ==
    destroyPc = "done" =>
        /\ ~connected
        /\ McpGetTools = <<>>
        /\ ~reconnectTimer
        /\ liveTimers = 0
        /\ ~scheduledAfterDestroy
        /\ ~startedAfterDestroy

\* The delays the backoff is stated to go through, by the number of failed
\* attempts since the last successful connect.
ExpectedDelay(n) == IF n <= 4 THEN <<5000, 10000, 20000, 40000>>[n] ELSE 60000

\* C23: the reconnect that follows the n-th consecutive failed attempt is
\* scheduled min(5000 * 2^(n-1), 60000) ms later (5000, 10000, 20000, 40000, then
\* 60000), n counting the failures since the last successful connect; after a
\* successful connect the next delay would be 5000 again.
C23_ReconnectBackoff ==
    /\ reconnectTimer => (mcpFailed >= 1 /\ timerDelay = ExpectedDelay(mcpFailed))
    /\ \A i \in 2..Len(mcpLog) : mcpLog[i].delay = ExpectedDelay(i - 1)
    /\ ReconnectDelay(Increment(reconnectAttempts)) = ExpectedDelay(mcpFailed + 1)
    /\ connected => (mcpFailed = 0 /\ ReconnectDelay(Increment(reconnectAttempts)) = 5000)

\* Five attempts failed, the sixth (60000 ms after the fifth) connected.
C23_Witness ==
    /\ connected
    /\ reconnectAttempts = 0
    /\ Len(mcpLog) = 6
    /\ mcpLog[5] = [delay |-> 40000, outcome |-> "failed"]
    /\ mcpLog[6] = [delay |-> 60000, outcome |-> "ok"]

Budget == maxTokens - reservedTokens

FixedTokens == EstimateTokens(<<systemMessage>> \o currentMessages)

HistoryBudget == Budget - FixedTokens

\* C26: the estimated tokens of the list trimMessages() returns are at most
\* maxTokens - reservedTokens, unless the system message and the current-turn
\* messages alone reach that budget, and then the list is exactly
\* [system, ...current-turn].
C26_ContextFit ==
    trimPc = "returned" =>
        IF FixedTokens >= Budget
        THEN trimResult = <<systemMessage>> \o currentMessages
        ELSE EstimateTokens(trimResult) <= Budget

\* C27: the list trimMessages() returns starts with the system message and ends
\* with the current-turn messages, all of them, unchanged and in order; none of
\* them appears anywhere else in it.
C27_CurrentTurnPreserved ==
    trimPc = "returned" =>
        LET n == Len(trimResult)
            c == Len(currentMessages)
        IN  /\ n >= 1 + c
            /\ trimResult[1] = systemMessage
            /\ SubSeq(trimResult, n - c + 1, n) = currentMessages
            /\ \A i \in 2..(n - c) : trimResult[i].id < 100

\* A history that was summarised, the summariser failing, a turn of three messages.
C27_Witness ==
    /\ trimPc = "returned"
    /\ summaryOutcome = "failed"
    /\ Len(currentMessages) = 3
    /\ Len(trimResult) > 1 + Len(currentMessages)

\* The list [system, ...history, ...current-turn], no summary, no llm.chat call.
Verbatim ==
    /\ chatCalls = 0
    /\ summaryOutcome = ""
    /\ trimPc = "returned" => trimResult = <<systemMessage>> \o history \o currentMessages

\* C28 as stated: when the history's tokens fit the history budget, the empty
\* history included, trimMessages() returns [system, ...history, ...current-turn]
\* verbatim and does not call the summariser.
C28_FittingHistoryVerbatim ==
    (history = <<>> \/ EstimateTokens(history) <= HistoryBudget) => Verbatim

\* C28: the same, for fixed parts that stay below the budget (a history budget
\* above zero), and for the empty history.
C28_FittingHistoryVerbatimBelowBudget ==
    (history = <<>> \/ (FixedTokens < Budget /\ EstimateTokens(history) <= HistoryBudget))
        => Verbatim

\* A history above 80% of the history budget and within it.
C28_Witness ==
    /\ trimPc = "returned"
    /\ history # <<>>
    /\ FixedTokens < Budget
    /\ EstimateTokens(history) <= HistoryBudget
    /\ EstimateTokens(history) > (4 * HistoryBudget) \div 5
    /\ trimResult = <<systemMessage>> \o history \o currentMessages

\* C29: when the history is trimmed and the summariser fails, trimMessages()
\* still returns: [system, fallback, ...kept, ...current-turn], the fallback one
\* system-role message, kept the messages splitHistory() chose before the
\* summariser was called, the same as after a summary that succeeded.
C29_FallbackOnSummaryFailure ==
    summaryOutcome # "" =>
        /\ trimPc = "returned"
        /\ trimmed # <<>>
        /\ trimmed \o kept = history
        /\ kept = SplitHistory(history, HistoryBudget).kept
        /\ Len(trimResult) = 2 + Len(kept) + Len(currentMessages)
        /\ trimResult[1] = systemMessage
        /\ trimResult[2].role = "system"
        /\ trimResult[2].id = IF summaryOutcome = "failed" THEN -2 ELSE -1
        /\ SubSeq(trimResult, 3, 2 + Len(kept)) = kept
        /\ SubSeq(trimResult, 3 + Len(kept), Len(trimResult)) = currentMessages

\* The summariser failed over a history of which one message was summarised.
C29_Witness ==
    /\ trimPc = "returned"
    /\ summaryOutcome = "failed"
    /\ Len(trimmed) = 1
    /\ Len(kept) = 2
    /\ trimResult[2] = FallbackSummary(trimmed)

AccessAt(order, sessionId) ==
    (CHOOSE e \in Range(order) : e.id = sessionId).at

\* 10% of the limit, rounded up, at least one.
ExpectedEvictions ==
    IF (maxSessions + 9) \div 10 > 1 THEN (maxSessions + 9) \div 10 ELSE 1

\* A getSession() step that creates a session in a manager holding maxSessions.
CreatesAtLimit ==
    /\ memOps' # memOps
    /\ memLast' = "getSession"
    /\ sessions' \ sessions # {}
    /\ Cardinality(sessions) = maxSessions

\* The sessions evicted by the step are the least recently accessed ones.
EvictsOldest ==
    \A e \in sessions \ sessions', r \in sessions \cap sessions' :
        AccessAt(accessOrder, r) >= AccessAt(accessOrder, e)

\* C31: a getSession() that creates a session while maxSessions are held evicts
\* exactly max(1, ceil(maxSessions / 10)) sessions, and no session it retains
\* has an older last access than one it evicts.
C31_EvictsTenPercentOldest ==
    [][CreatesAtLimit =>
        /\ Cardinality(sessions \ sessions') = ExpectedEvictions
        /\ EvictsOldest]_vars

\* C40: after every call on the manager the ids that have a store are the ids
\* that have a recorded access time, each once: creating a session evicts
\* neither the session being created nor its access time, whatever the
\* timestamps the sessions share.
C40_StoresMatchAccessTimes ==
    /\ {accessOrder[i].id : i \in 1..Len(accessOrder)} = sessions
    /\ Len(accessOrder) = Cardinality(sessions)

\* The history does not fit: trimMessages() has called splitHistory().
TrimmingNeeded ==
    /\ trimPc # "called"
    /\ FixedTokens < Budget
    /\ EstimateTokens(history) > HistoryBudget

\* The length of the longest suffix of h whose estimated tokens are at most b.
LongestSuffix(h, b) ==
    CHOOSE k \in 0..Len(h) :
        /\ EstimateTokens(SubSeq(h, Len(h) - k + 1, Len(h))) <= b
        /\ \A j \in (k + 1)..Len(h) :
              EstimateTokens(SubSeq(h, Len(h) - j + 1, Len(h))) > b

\* C34: when the history is trimmed, trimmed followed by kept is the history, and
\* kept is its longest suffix of at most floor(0.8 * history budget) estimated
\* tokens, or its last min(2, |history|) messages when that suffix is shorter.
C34_SplitHistory ==
    TrimmingNeeded =>
        LET longest == LongestSuffix(history, (4 * HistoryBudget) \div 5)
            least == IF Len(history) < 2 THEN Len(history) ELSE 2
        IN  /\ trimmed \o kept = history
            /\ Len(kept) = IF longest > least THEN longest ELSE least

\* The newest two messages alone exceed the history budget and are kept.
C34_Witness ==
    /\ TrimmingNeeded
    /\ Len(trimmed) = 1
    /\ Len(kept) = 2
    /\ EstimateTokens(kept) > HistoryBudget

\* -------------------------------------------------- remote execute claims
\* The text blocks of the server's response.
TextBlocks == SelectSeq(callToolResponse.content, LAMBDA c : c.type = "text")

\* C36: execute() returns the text of the only text block of the response, the
\* texts joined with newlines when there are several, and the raw response when
\* there is no text block: no content list, an empty one, or non-text blocks only.
C36_ExecuteResult ==
    mcpResult.kind # "none" =>
        CASE Len(TextBlocks) = 1 -> mcpResult.kind = "text" /\ mcpResult.text = TextBlocks[1].text
          [] Len(TextBlocks) > 1 ->
                /\ mcpResult.kind = "text"
                /\ mcpResult.text = JoinLines([i \in 1..Len(TextBlocks) |-> TextBlocks[i].text])
          [] OTHER -> mcpResult.kind = "raw" /\ mcpResult.raw = callToolResponse

\* --------------------------------------------------------- chatStream claims
\* The arguments of the call of an index: its fragments, in the order of the stream.
RECURSIVE ArgumentsOf(_, _)
ArgumentsOf(s, index) ==
    IF s = <<>> THEN ""
    ELSE (IF Head(s).kind = "tool" /\ Head(s).index = index THEN Head(s).arguments ELSE "")
         \o ArgumentsOf(Tail(s), index)

\* C35: when the stream is over, chatStream has yielded one tool_call chunk for
\* each tool call of the stream, holding all argument fragments of that call in
\* order, and the done chunk after them, also when the fragments of two calls
\* interleave and when a later delta repeats the call id.
C35_OneChunkPerToolCall ==
    streamPos > Len(providerStream) =>
        LET calls == SelectSeq(yielded, LAMBDA c : c.type = "tool_call")
        IN  /\ Len(calls) = Cardinality(IndexesOf(providerStream))
            /\ \A i \in IndexesOf(providerStream) :
                  \E k \in 1..Len(calls) :
                      /\ calls[k].id = CallId(i)
                      /\ calls[k].arguments = ArgumentsOf(providerStream, i)
            /\ yielded # <<>>
            /\ yielded[Len(yielded)] = DoneChunk
            /\ \A k \in 1..(Len(yielded) - 1) : yielded[k] # DoneChunk

\* ------------------------------------------------- registered source claims
\* C37: a source whose first handshake failed inside registerSource is held by
\* the registry while it reconnects, unless it was destroyed, and once it is
\* connected the registry lists and routes its tools.
C37_SelfHeals ==
    \A s \in 1..Len(objs) :
        initState[s] = "failed" =>
            /\ (srcTimer[s] \/ srcAttempt[s]) => (Installed(s) \/ destroys[s] > 0)
            /\ srcConnected[s] =>
                  \A t \in objs[s].tools : [src |-> s, name |-> t] \in HostToolDefinitions

\* No registerSource or unregisterSource call is in progress.
NoHostCallPending == \A c \in 1..NHostCalls : hostCalls[c].pc = "idle"

\* C38: when no registerSource or unregisterSource call is in progress, every
\* installed source has been initialized and not destroyed, and every source
\* whose initialize succeeded is installed or destroyed.
C38_InstalledIffLive ==
    NoHostCallPending =>
        \A s \in 1..Len(objs) :
            /\ Installed(s) => (initState[s] = "done" /\ destroys[s] = 0)
            /\ initState[s] = "done" => (Installed(s) \/ destroys[s] > 0)

\* ---------------------------------------------------- long-term memory claims
\* A get() call returned in this step.
GetReturned == ltmGot'.no # ltmGot.no

\* C32: get(k) returns the value the last completed set(k, v) was given, for a
\* string (one that is JSON text too) as for an object, with an embedder, without
\* one and with one that fails.
C32_SetGetRoundTrip ==
    [][GetReturned =>
          \A r \in memories : r.key = ltmGot'.key => ltmGot'.value = r.value]_vars

\* The query is a substring of the content, letters compared as the store
\* compares them.
Contains(content, query) ==
    LET t == Chars(content)
        q == Chars(query)
    IN  \E i \in 1..(Len(t) - Len(q) + 1) :
            \A j \in 1..Len(q) : Fold(t[i + j - 1]) = Fold(q[j])
\* The stored row an entry of a search result was made from.
RowOf(entry) == CHOOSE r \in memories : r.id = entry.id

\* C33: a search whose query embedding failed returns the entries whose content
\* contains the query, the most recently written first, min(limit, their number)
\* of them, whether or not they have an embedding.
C33_FallbackSearch ==
    [][(ltmFound'.no # ltmFound.no /\ ltmFound'.failed) =>
          LET e == ltmFound'.entries
              containing == {r \in memories : Contains(r.content, ltmFound'.query)}
          IN  /\ Len(e) = Min(ltmFound'.limit, Cardinality(containing))
              /\ \A i \in 1..Len(e) : RowOf(e[i]) \in containing
              /\ \A i, j \in 1..Len(e) : i < j => RowOf(e[i]).seq > RowOf(e[j]).seq
              /\ \A r \in containing :
                    (\A i \in 1..Len(e) : e[i].id # r.id) =>
                        \A i \in 1..Len(e) : RowOf(e[i]).seq > r.seq]_vars

\* No two rows hold the same key.
OneEntryPerKey ==
    \A r1, r2 \in memories : (r1.key = r2.key /\ r1.key # NoKey) => r1 = r2
\* The embedding of a row was computed by the call that wrote its content.
EmbeddingOfContent ==
    \A r \in memories :
        r.embedding # NoEmbedding =>
            (r.embedding.call = r.call /\ r.embedding.text = r.content)
\* remember() stored its row in this step.
Remembered == \E r \in memories' \ memories : r.key = NoKey

\* C39: however set() calls waiting for the embedder interleave, a key has at most
\* one entry, whose content and embedding were written by one call, and get(key)
\* returns a value that one of the set(key, ...) calls was given; remember() leaves
\* the existing entries as they are and adds an entry with an id none of them has.
C39_ConcurrentSets ==
    [][/\ OneEntryPerKey'
       /\ EmbeddingOfContent'
       /\ (GetReturned /\ ltmGot'.value # Undefined) =>
              \E a \in ltmSetArgs : a.key = ltmGot'.key /\ a.value = ltmGot'.value
       /\ Remembered =>
              /\ memories \subseteq memories'
              /\ \A r \in memories' \ memories : \A old \in memories : old.id # r.id]_vars
====
